---- MODULE Spec2Model ----
(***************************************************************************)
(* Model of the graph builder (Convert) and the path validator             *)
(* (ApplyPathHighlighting) of dot2d3, package d3.                          *)
(*                                                                         *)
(* The AST is given as records:                                            *)
(*   NodeStmt   [kind, id, attrs]          attrs: sequence of <<key,value>>*)
(*   EdgeStmt   [kind, left, rights, attrs] endpoints, see below           *)
(*   AttrStmt   [kind, akind, attrs]       akind: "node" | "edge" | "graph"*)
(*   AttrAssign [kind, key, value]                                         *)
(*   Subgraph   [kind, id, stmts]          id "" when sg.ID == nil         *)
(* and an edge endpoint is a NodeID [kind, id], a NodeGroup [kind, nodes]  *)
(* or a Subgraph.  A nil attribute list and an empty one behave alike in   *)
(* every function of the converter, so both are the empty sequence.        *)
(*                                                                         *)
(* Source text is a sequence of one-character strings; every character of  *)
(* the inputs is one byte long, so byte offsets count characters.  The     *)
(* value EOF stands for the rune -1.                                       *)
(***************************************************************************)
EXTENDS Integers, Sequences, FiniteSets, TLC

VARIABLES
    pc,            \* "converting": inside Convert; "returned": the Graph is out
    directed,      \* c.directed, then g.Directed
    strict,        \* c.strict, then g.Strict
    graphID,       \* c.graphID, then g.GraphID
    nodes,         \* c.nodes: id -> Node
    links,         \* c.links, then g.Links (the same slice)
    subgraphs,     \* c.subgraphs, then g.Subgraphs
    nodeDefaults,  \* c.nodeDefaults
    edgeDefaults,  \* c.edgeDefaults
    Nodes,         \* g.Nodes, built when Convert returns
    result,        \* the PathValidationResult of the last ApplyPathHighlighting
    last,          \* the top-level statement processed last
    path,          \* the statements of the path AST validated last
    nstmts,        \* number of top-level statements processed
    ncalls,        \* ApplyPathHighlighting calls made on the Graph (0 or 1)
    input,         \* the source text given to the lexer, as its pieces
    lexer,         \* the Lexer: src, ch, offset, rdOffset, line, column, Errors
    scan,          \* what the last call of Scan returned: pos, tok, lit
    parser,        \* the Parser: current and lookahead token, Errors
    parsed         \* what Parse returned: the AST g and the error err

textVars == <<input, lexer, scan, parser, parsed>>

vars == <<pc, directed, strict, graphID, nodes, links, subgraphs, nodeDefaults,
          edgeDefaults, Nodes, result, last, path, nstmts, ncalls,
          input, lexer, scan, parser, parsed>>

\* ------------------------------------------------------------------ bounds
\* top-level statements of the graph AST
MaxStmts == 3
\* hops of an edge chain
MaxHops == 2
\* top-level statements of a graph AST made of edge statements
MaxEdgeStmts == 2
\* characters of a source text given to the lexer alone
MaxLen == 3
\* tokens of a source text given to the parser, between the fixed ones
MaxToks == 3
\* statements in the body of a graph whose keywords are written in any case
MaxCaseStmts == 2
\* calls of ApplyPathHighlighting on one Graph
MaxCalls == 2

Ids == {"A", "B", "C"}

\* ------------------------------------------------------------ Go map helpers
EmptyMap == [k \in {} |-> ""]

Put(m, k, v) == [x \in (DOMAIN m) \cup {k} |-> IF x = k THEN v ELSE m[x]]

Get(m, k) == IF k \in DOMAIN m THEN m[k] ELSE ""

RECURSIVE SetToSeq(_)
SetToSeq(S) ==
    IF S = {} THEN <<>>
    ELSE LET x == CHOOSE y \in S : TRUE IN <<x>> \o SetToSeq(S \ {x})

\* The order in which `for k, v := range m` visits the keys of m.  Go leaves
\* the order unspecified.  Only "color" and "fillcolor" write the same field,
\* so the orders differ in effect only by which of the two comes later:
\* fillLast chooses it.
rangeKeys(m, fillLast) ==
    LET others == SetToSeq((DOMAIN m) \ {"color", "fillcolor"})
        col    == IF "color" \in DOMAIN m THEN <<"color">> ELSE <<>>
        fill   == IF "fillcolor" \in DOMAIN m THEN <<"fillcolor">> ELSE <<>>
    IN  IF fillLast THEN others \o col \o fill ELSE others \o fill \o col

\* --------------------------------------------------------------- graph types
NewNode(id) ==
    [ID |-> id, Label |-> id, Color |-> "", FillColor |-> "", Shape |-> "",
     Style |-> "", Group |-> "", Attributes |-> EmptyMap,
     OnPath |-> FALSE, PathInvalid |-> FALSE]

NewLink(source, target) ==
    [Source |-> source, Target |-> target, Label |-> "", Color |-> "",
     Style |-> "", Attributes |-> EmptyMap, OnPath |-> FALSE]

\* ------------------------------------------------------------ the converter
\* A converter value c is the record
\*   [nodes, links, subgraphs, nodeDefaults, edgeDefaults, directed, strict,
\*    graphID, ord]
\* where ord[id] is the iteration-order choice for the defaults applied to id.

getOrCreateNode(c, id) ==
    IF id \in DOMAIN c.nodes THEN c
    ELSE [c EXCEPT !.nodes = Put(c.nodes, id, NewNode(id))]

applyNodeAttr(node, key, value) ==
    CASE key = "label" -> [node EXCEPT !.Label = value]
      [] key \in {"color", "fillcolor"} -> [node EXCEPT !.Color = value]
      [] key = "shape" -> [node EXCEPT !.Shape = value]
      [] key = "style" -> [node EXCEPT !.Style = value]
      [] OTHER -> [node EXCEPT !.Attributes = Put(node.Attributes, key, value)]

applyLinkAttr(link, key, value) ==
    CASE key = "label" -> [link EXCEPT !.Label = value]
      [] key = "color" -> [link EXCEPT !.Color = value]
      [] key = "style" -> [link EXCEPT !.Style = value]
      [] OTHER -> [link EXCEPT !.Attributes = Put(link.Attributes, key, value)]

\* for _, attr := range attrs.Attrs { apply(x, attr.Key.Name, attr.Value.Name) }
RECURSIVE applyNodeAttrList(_, _, _)
applyNodeAttrList(node, attrs, i) ==
    IF i > Len(attrs) THEN node
    ELSE applyNodeAttrList(applyNodeAttr(node, attrs[i][1], attrs[i][2]), attrs, i + 1)

RECURSIVE applyLinkAttrList(_, _, _)
applyLinkAttrList(link, attrs, i) ==
    IF i > Len(attrs) THEN link
    ELSE applyLinkAttrList(applyLinkAttr(link, attrs[i][1], attrs[i][2]), attrs, i + 1)

\* for k, v := range defaults { apply(x, k, v) }, keys visited in order ks
RECURSIVE applyNodeDefaults(_, _, _, _)
applyNodeDefaults(node, defaults, ks, i) ==
    IF i > Len(ks) THEN node
    ELSE applyNodeDefaults(applyNodeAttr(node, ks[i], defaults[ks[i]]), defaults, ks, i + 1)

RECURSIVE applyLinkDefaults(_, _, _, _)
applyLinkDefaults(link, defaults, ks, i) ==
    IF i > Len(ks) THEN link
    ELSE applyLinkDefaults(applyLinkAttr(link, ks[i], defaults[ks[i]]), defaults, ks, i + 1)

\* One iteration of the loop of ensureNode: default k -> v is applied only
\* when the field it writes is still unset.
ensureDefault(node, id, k, v) ==
    CASE k = "label" -> IF node.Label = id THEN applyNodeAttr(node, k, v) ELSE node
      [] k \in {"color", "fillcolor"} ->
            IF node.Color = "" THEN applyNodeAttr(node, k, v) ELSE node
      [] k = "shape" -> IF node.Shape = "" THEN applyNodeAttr(node, k, v) ELSE node
      [] k = "style" -> IF node.Style = "" THEN applyNodeAttr(node, k, v) ELSE node
      [] OTHER -> IF Get(node.Attributes, k) = "" THEN applyNodeAttr(node, k, v) ELSE node

RECURSIVE ensureDefaults(_, _, _, _, _)
ensureDefaults(node, id, defaults, ks, i) ==
    IF i > Len(ks) THEN node
    ELSE ensureDefaults(ensureDefault(node, id, ks[i], defaults[ks[i]]), id, defaults, ks, i + 1)

ensureNode(c, id, subgraphID) ==
    LET c1 == getOrCreateNode(c, id)
        n1 == ensureDefaults(c1.nodes[id], id, c1.nodeDefaults,
                             rangeKeys(c1.nodeDefaults, c1.ord[id]), 1)
        n2 == IF subgraphID # "" /\ n1.Group = ""
              THEN [n1 EXCEPT !.Group = subgraphID] ELSE n1
    IN  [c1 EXCEPT !.nodes[id] = n2]

processNodeStmt(c, stmt, subgraphID) ==
    LET id == stmt.id
        c1 == getOrCreateNode(c, id)
        n1 == applyNodeDefaults(c1.nodes[id], c1.nodeDefaults,
                                rangeKeys(c1.nodeDefaults, c1.ord[id]), 1)
        n2 == applyNodeAttrList(n1, stmt.attrs, 1)
        n3 == IF subgraphID # "" THEN [n2 EXCEPT !.Group = subgraphID] ELSE n2
    IN  [c1 EXCEPT !.nodes[id] = n3]

\* linkExists without the reverse check for undirected graphs
linkExistsSameOrientation(c, source, target) ==
    \E i \in 1..Len(c.links) :
        c.links[i].Source = source /\ c.links[i].Target = target

linkExists(c, source, target) ==
    \E i \in 1..Len(c.links) :
        \/ c.links[i].Source = source /\ c.links[i].Target = target
        \/ ~c.directed /\ c.links[i].Source = target /\ c.links[i].Target = source

RECURSIVE putAttrs(_, _, _)
putAttrs(m, attrs, i) ==
    IF i > Len(attrs) THEN m ELSE putAttrs(Put(m, attrs[i][1], attrs[i][2]), attrs, i + 1)

processAttrStmt(c, stmt) ==
    CASE stmt.akind = "node" ->
            [c EXCEPT !.nodeDefaults = putAttrs(c.nodeDefaults, stmt.attrs, 1)]
      [] stmt.akind = "edge" ->
            [c EXCEPT !.edgeDefaults = putAttrs(c.edgeDefaults, stmt.attrs, 1)]
      [] OTHER -> c

\* The methods of the Converter that call one another recursively reach each
\* other through call: call([fn |-> name, c |-> converter, x |-> AST node,
\* sg |-> subgraphID]) is the method `name` applied to (x, sg) on converter c.
RECURSIVE call(_)

\* ensureNode for each NodeID of a node group, in order
RECURSIVE ensureNodes(_, _, _, _)
ensureNodes(c, ids, subgraphID, i) ==
    IF i > Len(ids) THEN c
    ELSE ensureNodes(ensureNode(c, ids[i], subgraphID), ids, subgraphID, i + 1)

\* collectEndpoints that returns the id of a node id endpoint without
\* ensureNode
collectEndpointsNoEnsure(c, ep, subgraphID) ==
    CASE ep.kind = "NodeID" -> [c |-> c, ids |-> <<ep.id>>]
      [] ep.kind = "NodeGroup" ->
            [c |-> ensureNodes(c, ep.nodes, subgraphID, 1), ids |-> ep.nodes]
      [] ep.kind = "Subgraph" ->
            call([fn |-> "processSubgraphNodes", c |-> c, x |-> ep, sg |-> ep.id])

\* Result: [c |-> the converter afterwards, ids |-> the endpoint's node ids]
collectEndpoints(c, ep, subgraphID) ==
    CASE ep.kind = "NodeID" ->
            [c |-> ensureNode(c, ep.id, subgraphID), ids |-> <<ep.id>>]
      [] ep.kind = "NodeGroup" ->
            [c |-> ensureNodes(c, ep.nodes, subgraphID, 1), ids |-> ep.nodes]
      [] ep.kind = "Subgraph" ->
            call([fn |-> "processSubgraphNodes", c |-> c, x |-> ep, sg |-> ep.id])

\* createLink that merges the attribute list of a dropped duplicate into the
\* link of the pair
createLinkMerging(c, stmt, leftID, rightID) ==
    LET l0 == NewLink(leftID, rightID)
        l1 == applyLinkDefaults(l0, c.edgeDefaults, SetToSeq(DOMAIN c.edgeDefaults), 1)
        l2 == applyLinkAttrList(l1, stmt.attrs, 1)
    IN  IF c.strict /\ linkExists(c, l2.Source, l2.Target)
        THEN [c EXCEPT !.links =
                [i \in 1..Len(c.links) |->
                    IF \/ (c.links[i].Source = leftID /\ c.links[i].Target = rightID)
                       \/ ~c.directed /\ (c.links[i].Source = rightID /\ c.links[i].Target = leftID)
                    THEN applyLinkAttrList(c.links[i], stmt.attrs, 1)
                    ELSE c.links[i]]]
        ELSE [c EXCEPT !.links = Append(c.links, l2)]

\* createLink with the edge defaults applied after the attribute list
createLinkDefaultsLast(c, stmt, leftID, rightID) ==
    LET l0 == NewLink(leftID, rightID)
        l1 == applyLinkAttrList(l0, stmt.attrs, 1)
        l2 == applyLinkDefaults(l1, c.edgeDefaults, SetToSeq(DOMAIN c.edgeDefaults), 1)
    IN  IF c.strict /\ linkExists(c, l2.Source, l2.Target) THEN c
        ELSE [c EXCEPT !.links = Append(c.links, l2)]

\* The body of the innermost loop of processEdgeStmt for one (leftID, rightID)
createLink(c, stmt, leftID, rightID) ==
    LET l0 == NewLink(leftID, rightID)
        l1 == applyLinkDefaults(l0, c.edgeDefaults, SetToSeq(DOMAIN c.edgeDefaults), 1)
        l2 == applyLinkAttrList(l1, stmt.attrs, 1)
    IN  IF c.strict /\ linkExists(c, l2.Source, l2.Target) THEN c
        ELSE [c EXCEPT !.links = Append(c.links, l2)]

\* createLinks with the two loops exchanged (right-major order)
RECURSIVE createLinksRightMajor(_, _, _, _, _, _)
createLinksRightMajor(c, stmt, lefts, rights, i, j) ==
    IF j > Len(rights) THEN c
    ELSE IF i > Len(lefts) THEN createLinksRightMajor(c, stmt, lefts, rights, 1, j + 1)
    ELSE createLinksRightMajor(createLink(c, stmt, lefts[i], rights[j]), stmt, lefts,
                               rights, i + 1, j)

\* for _, leftID := range endpoints { for _, rightID := range rightEndpoints {..} }
RECURSIVE createLinks(_, _, _, _, _, _)
createLinks(c, stmt, lefts, rights, i, j) ==
    IF i > Len(lefts) THEN c
    ELSE IF j > Len(rights) THEN createLinks(c, stmt, lefts, rights, i + 1, 1)
    ELSE createLinks(createLink(c, stmt, lefts[i], rights[j]), stmt, lefts, rights, i, j + 1)

\* edgeChain without `endpoints = rightEndpoints`: every hop starts at the left
RECURSIVE edgeChainKeepLeft(_, _, _, _, _)
edgeChainKeepLeft(c, stmt, endpoints, k, subgraphID) ==
    IF k > Len(stmt.rights) THEN c
    ELSE LET r == call([fn |-> "collectEndpoints", c |-> c, x |-> stmt.rights[k],
                        sg |-> subgraphID])
         IN  edgeChainKeepLeft(createLinks(r.c, stmt, endpoints, r.ids, 1, 1),
                               stmt, endpoints, k + 1, subgraphID)

\* for _, right := range stmt.Rights { ... endpoints = rightEndpoints }
RECURSIVE edgeChain(_, _, _, _, _)
edgeChain(c, stmt, endpoints, k, subgraphID) ==
    IF k > Len(stmt.rights) THEN c
    ELSE LET r == call([fn |-> "collectEndpoints", c |-> c, x |-> stmt.rights[k],
                        sg |-> subgraphID])
         IN  edgeChain(createLinks(r.c, stmt, endpoints, r.ids, 1, 1),
                       stmt, r.ids, k + 1, subgraphID)

processEdgeStmt(c, stmt, subgraphID) ==
    LET l == call([fn |-> "collectEndpoints", c |-> c, x |-> stmt.left, sg |-> subgraphID])
    IN  edgeChain(l.c, stmt, l.ids, 1, subgraphID)

endpointsOf(stmt) == <<stmt.left>> \o stmt.rights

\* ids = collectEndpoints(s.Left); for r in s.Rights: ids = collectEndpoints(r)
\* with every result appended to nodeIDs: the re-collection that
\* processSubgraphNodes and processSubgraph run after an edge statement.
RECURSIVE collectAll(_, _, _, _, _)
collectAll(c, eps, subgraphID, i, acc) ==
    IF i > Len(eps) THEN [c |-> c, ids |-> acc]
    ELSE LET r == call([fn |-> "collectEndpoints", c |-> c, x |-> eps[i],
                        sg |-> subgraphID])
         IN  collectAll(r.c, eps, subgraphID, i + 1, acc \o r.ids)

\* One iteration of the loop of processSubgraphNodes, on [c, ids]
subgraphNodesStep(r, s, subgraphID) ==
    CASE s.kind = "NodeStmt" ->
            [c |-> ensureNode(r.c, s.id, subgraphID), ids |-> Append(r.ids, s.id)]
      [] s.kind = "EdgeStmt" ->
            collectAll(call([fn |-> "processEdgeStmt", c |-> r.c, x |-> s,
                             sg |-> subgraphID]),
                       endpointsOf(s), subgraphID, 1, r.ids)
      [] s.kind = "Subgraph" ->
            LET n == call([fn |-> "processSubgraphNodes", c |-> r.c, x |-> s,
                           sg |-> subgraphID])
            IN  [c |-> n.c, ids |-> r.ids \o n.ids]
      [] OTHER -> r

RECURSIVE subgraphNodesLoop(_, _, _, _)
subgraphNodesLoop(r, stmts, subgraphID, i) ==
    IF i > Len(stmts) THEN r
    ELSE subgraphNodesLoop(subgraphNodesStep(r, stmts[i], subgraphID), stmts,
                           subgraphID, i + 1)

processSubgraphNodes(c, sg, subgraphID) ==
    subgraphNodesLoop([c |-> c, ids |-> <<>>], sg.stmts, subgraphID, 1)

\* One iteration of the first loop of processSubgraph, on [c, ids]
subgraphStep(r, s, sgID) ==
    LET c1 == call([fn |-> "processStatement", c |-> r.c, x |-> s, sg |-> sgID])
    IN  CASE s.kind = "NodeStmt" -> [c |-> c1, ids |-> Append(r.ids, s.id)]
          [] s.kind = "EdgeStmt" -> collectAll(c1, endpointsOf(s), sgID, 1, r.ids)
          [] OTHER -> [c |-> c1, ids |-> r.ids]

RECURSIVE subgraphLoop(_, _, _, _)
subgraphLoop(r, stmts, sgID, i) ==
    IF i > Len(stmts) THEN r
    ELSE subgraphLoop(subgraphStep(r, stmts[i], sgID), stmts, sgID, i + 1)

\* The second loop of processSubgraph: the last `label = v` assignment wins
RECURSIVE subgraphLabel(_, _, _)
subgraphLabel(stmts, i, label) ==
    IF i > Len(stmts) THEN label
    ELSE subgraphLabel(stmts, i + 1,
            IF stmts[i].kind = "AttrAssign" /\ stmts[i].key = "label"
            THEN stmts[i].value ELSE label)

processSubgraph(c, sg) ==
    LET sgID == sg.id
        r    == subgraphLoop([c |-> c, ids |-> <<>>], sg.stmts, sgID, 1)
    IN  IF sgID # ""
        THEN [r.c EXCEPT !.subgraphs =
                Append(r.c.subgraphs, [ID |-> sgID, Label |-> subgraphLabel(sg.stmts, 1, ""),
                                       Nodes |-> r.ids])]
        ELSE r.c

processStatement(c, stmt, subgraphID) ==
    CASE stmt.kind = "NodeStmt" -> processNodeStmt(c, stmt, subgraphID)
      [] stmt.kind = "EdgeStmt" ->
            call([fn |-> "processEdgeStmt", c |-> c, x |-> stmt, sg |-> subgraphID])
      [] stmt.kind = "AttrStmt" -> processAttrStmt(c, stmt)
      [] stmt.kind = "AttrAssign" -> c
      [] stmt.kind = "Subgraph" ->
            call([fn |-> "processSubgraph", c |-> c, x |-> stmt, sg |-> subgraphID])

call(r) ==
    CASE r.fn = "processStatement" -> processStatement(r.c, r.x, r.sg)
      [] r.fn = "processEdgeStmt" -> processEdgeStmt(r.c, r.x, r.sg)
      [] r.fn = "collectEndpoints" -> collectEndpoints(r.c, r.x, r.sg)
      [] r.fn = "processSubgraphNodes" -> processSubgraphNodes(r.c, r.x, r.sg)
      [] r.fn = "processSubgraph" -> processSubgraph(r.c, r.x)

\* ------------------------------------------------------------------- lexer
\* the rune -1 that next leaves in l.ch at the end of the input
EOF == "EOF"

\* what WriteRune appends for a rune that is not a valid code point
RuneError == "U+FFFD"

LowerCase == <<"a", "b", "c", "d", "e", "f", "g", "h", "i", "j", "k", "l", "m",
               "n", "o", "p", "q", "r", "s", "t", "u", "v", "w", "x", "y", "z">>

UpperCase == <<"A", "B", "C", "D", "E", "F", "G", "H", "I", "J", "K", "L", "M",
               "N", "O", "P", "Q", "R", "S", "T", "U", "V", "W", "X", "Y", "Z">>

isLetter(ch) ==
    \/ \E i \in 1..Len(LowerCase) : LowerCase[i] = ch
    \/ \E i \in 1..Len(UpperCase) : UpperCase[i] = ch
    \/ ch = "_"

isDigit(ch) == ch \in {"0", "1", "2", "3", "4", "5", "6", "7", "8", "9"}

isAlphaNumeric(ch) == isLetter(ch) \/ isDigit(ch)

\* unicode.IsPrint on the characters of the inputs: the form feed is the one
\* that is not printable
IsPrint(ch) == ch # "\f"

\* strings.ToLower
ToLower(lit) ==
    [i \in 1..Len(lit) |->
        IF \E k \in 1..Len(UpperCase) : UpperCase[k] = lit[i]
        THEN LowerCase[CHOOSE k \in 1..Len(UpperCase) : UpperCase[k] = lit[i]]
        ELSE lit[i]]

\* Token.String: the text of a token in a message, tokens[t]
Token_String(t) ==
    CASE t = "LBRACE" -> "{"
      [] t = "RBRACE" -> "}"
      [] t = "LBRACKET" -> "["
      [] t = "RBRACKET" -> "]"
      [] t = "SEMICOLON" -> ";"
      [] t = "COLON" -> ":"
      [] t = "COMMA" -> ","
      [] t = "EQUAL" -> "="
      [] t = "ARROW" -> "->"
      [] t = "DASHDASH" -> "--"
      [] t = "STRICT" -> "strict"
      [] t = "GRAPH" -> "graph"
      [] t = "DIGRAPH" -> "digraph"
      [] t = "SUBGRAPH" -> "subgraph"
      [] t = "NODE" -> "node"
      [] t = "EDGE" -> "edge"
      [] OTHER -> t

\* token.Lookup: the keyword token of the identifier, else IDENT
Lookup(ident) ==
    CASE ident = <<"s", "t", "r", "i", "c", "t">> -> "STRICT"
      [] ident = <<"g", "r", "a", "p", "h">> -> "GRAPH"
      [] ident = <<"d", "i", "g", "r", "a", "p", "h">> -> "DIGRAPH"
      [] ident = <<"n", "o", "d", "e">> -> "NODE"
      [] ident = <<"e", "d", "g", "e">> -> "EDGE"
      [] ident = <<"s", "u", "b", "g", "r", "a", "p", "h">> -> "SUBGRAPH"
      [] OTHER -> "IDENT"

Lexer_next(l) ==
    IF l.rdOffset >= Len(l.src)
    THEN [l EXCEPT !.ch = EOF, !.offset = Len(l.src)]
    ELSE [l EXCEPT !.offset = l.rdOffset,
                   !.line = IF l.ch = "\n" THEN l.line + 1 ELSE l.line,
                   !.column = (IF l.ch = "\n" THEN 0 ELSE l.column) + 1,
                   !.rdOffset = l.rdOffset + 1,
                   !.ch = l.src[l.rdOffset + 1]]

\* New: the zero Lexer with line 1, then next to initialize ch
Lexer_New(filename, src) ==
    Lexer_next([src |-> src, ch |-> "NUL", offset |-> 0, rdOffset |-> 0, line |-> 1,
                column |-> 0, filename |-> filename, Errors |-> <<>>])

peek(l) == IF l.rdOffset >= Len(l.src) THEN EOF ELSE l.src[l.rdOffset + 1]

Lexer_pos(l) ==
    [Filename |-> l.filename, Offset |-> l.offset, Line |-> l.line, Column |-> l.column]

Lexer_error(l, at, msg) == [l EXCEPT !.Errors = Append(l.Errors, [Pos |-> at, Msg |-> msg])]

RECURSIVE skipWhitespace(_)
skipWhitespace(l) ==
    IF l.ch \in {" ", "\t", "\n", "\r"} THEN skipWhitespace(Lexer_next(l)) ELSE l

RECURSIVE skipLineComment(_)
skipLineComment(l) ==
    IF l.ch # "\n" /\ l.ch # EOF THEN skipLineComment(Lexer_next(l)) ELSE l

\* the result is [l, ok]; ok is false when the comment is unterminated
RECURSIVE skipBlockComment(_)
skipBlockComment(l) ==
    IF l.ch = EOF THEN [l |-> l, ok |-> FALSE]
    ELSE IF l.ch = "*" /\ peek(l) = "/"
         THEN [l |-> Lexer_next(Lexer_next(l)), ok |-> TRUE]
         ELSE skipBlockComment(Lexer_next(l))

\* for isAlphaNumeric(l.ch) { l.next() }
RECURSIVE skipAlphaNumeric(_)
skipAlphaNumeric(l) == IF isAlphaNumeric(l.ch) THEN skipAlphaNumeric(Lexer_next(l)) ELSE l

\* for isDigit(l.ch) { l.next() }
RECURSIVE skipDigits(_)
skipDigits(l) == IF isDigit(l.ch) THEN skipDigits(Lexer_next(l)) ELSE l

\* string(l.src[start:l.offset])
Slice(l, start) == SubSeq(l.src, start + 1, l.offset)

scanIdent(l) ==
    LET l1 == skipAlphaNumeric(l)
    IN  [l |-> l1, lit |-> Slice(l1, l.offset)]

scanNumber(l) ==
    LET l1 == IF l.ch = "-" THEN Lexer_next(l) ELSE l
        l2 == skipDigits(l1)
        l3 == IF l2.ch = "." THEN skipDigits(Lexer_next(l2)) ELSE l2
    IN  [l |-> l3, lit |-> Slice(l3, l.offset)]

\* sb.WriteRune
WriteRune(sb, ch) == Append(sb, IF ch = EOF THEN RuneError ELSE ch)

\* the rune written for the character after a backslash
Escaped(ch) ==
    CASE ch = "n" -> "\n"
      [] ch = "t" -> "\t"
      [] ch = "r" -> "\r"
      [] OTHER -> ch

\* the loop of scanString giving up the text read when the string is unterminated
RECURSIVE scanStringLoopDropsText(_, _)
scanStringLoopDropsText(l, sb) ==
    IF l.ch = EOF \/ l.ch = "\n" THEN [l |-> l, lit |-> <<>>, ok |-> FALSE]
    ELSE IF l.ch = "\"" THEN [l |-> Lexer_next(l), lit |-> sb, ok |-> TRUE]
    ELSE IF l.ch = "\\"
         THEN LET l1 == Lexer_next(l)
              IN  scanStringLoopDropsText(Lexer_next(l1), WriteRune(sb, Escaped(l1.ch)))
         ELSE scanStringLoopDropsText(Lexer_next(l), WriteRune(sb, l.ch))

RECURSIVE scanStringLoop(_, _)
scanStringLoop(l, sb) ==
    IF l.ch = EOF \/ l.ch = "\n" THEN [l |-> l, lit |-> sb, ok |-> FALSE]
    ELSE IF l.ch = "\"" THEN [l |-> Lexer_next(l), lit |-> sb, ok |-> TRUE]
    ELSE IF l.ch = "\\"
         THEN LET l1 == Lexer_next(l)
              IN  scanStringLoop(Lexer_next(l1), WriteRune(sb, Escaped(l1.ch)))
         ELSE scanStringLoop(Lexer_next(l), WriteRune(sb, l.ch))

scanString(l) == scanStringLoop(l, <<>>)

RECURSIVE scanHTMLStringLoop(_, _, _)
scanHTMLStringLoop(l, sb, depth) ==
    IF l.ch = EOF THEN [l |-> l, lit |-> sb, ok |-> FALSE]
    ELSE IF l.ch = "<"
         THEN scanHTMLStringLoop(Lexer_next(l), WriteRune(sb, l.ch), depth + 1)
    ELSE IF l.ch = ">"
         THEN IF depth - 1 = 0
              THEN [l |-> Lexer_next(l), lit |-> sb, ok |-> TRUE]
              ELSE scanHTMLStringLoop(Lexer_next(l), WriteRune(sb, l.ch), depth - 1)
    ELSE scanHTMLStringLoop(Lexer_next(l), WriteRune(sb, l.ch), depth)

scanHTMLString(l) == scanHTMLStringLoop(l, <<>>, 1)

\* The loop of Scan that skips comments and preprocessor lines, on [l, pos]
RECURSIVE skipComments(_)
skipComments(r) ==
    IF r.l.ch = "/" /\ peek(r.l) = "/"
    THEN LET l1 == skipWhitespace(skipLineComment(Lexer_next(Lexer_next(r.l))))
         IN  skipComments([l |-> l1, pos |-> Lexer_pos(l1)])
    ELSE IF r.l.ch = "/" /\ peek(r.l) = "*"
    THEN LET b  == skipBlockComment(Lexer_next(Lexer_next(r.l)))
             l1 == IF b.ok THEN b.l
                   ELSE Lexer_error(b.l, r.pos, <<"unterminated block comment">>)
             l2 == skipWhitespace(l1)
         IN  skipComments([l |-> l2, pos |-> Lexer_pos(l2)])
    ELSE IF r.l.ch = "#"
    THEN LET l1 == skipWhitespace(skipLineComment(r.l))
         IN  skipComments([l |-> l1, pos |-> Lexer_pos(l1)])
    ELSE r

Token(l, at, tok, lit) == [l |-> l, pos |-> at, tok |-> tok, lit |-> lit]

\* the default case of the switch, without the step to the next character
illegalCharNoAdvance(l, at) ==
    Token(Lexer_error(l, at, IF IsPrint(l.ch) THEN <<"unexpected character: ", l.ch>>
                             ELSE <<"unexpected character">>),
          at, "ILLEGAL", <<>>)

\* the default case of the switch: an error, ILLEGAL, and one character consumed
illegalChar(l, at) ==
    Token(Lexer_next(Lexer_error(l, at,
              IF IsPrint(l.ch) THEN <<"unexpected character: ", l.ch>>
              ELSE <<"unexpected character">>)),
          at, "ILLEGAL", <<>>)

\* the keyword lookup on the literal as written
lookupKeywordCaseSensitive(lit) == Lookup(lit)

\* token.Lookup(strings.ToLower(lit)): the case-insensitive keyword lookup
lookupKeyword(lit) == Lookup(ToLower(lit))

\* The switch of Scan, at the first character l.ch of a token
scanToken(l, at) ==
    CASE l.ch = EOF -> Token(l, at, "EOF", <<>>)
      [] isLetter(l.ch) ->
            LET r == scanIdent(l) IN Token(r.l, at, lookupKeyword(r.lit), r.lit)
      [] isDigit(l.ch) \/ (l.ch = "-" /\ isDigit(peek(l))) ->
            LET r == scanNumber(l) IN Token(r.l, at, "IDENT", r.lit)
      [] l.ch = "." ->
            IF isDigit(peek(l))
            THEN LET r == scanNumber(l) IN Token(r.l, at, "IDENT", r.lit)
            ELSE Token(Lexer_next(Lexer_error(l, at, <<"unexpected character: ", l.ch>>)),
                       at, "ILLEGAL", <<>>)
      [] l.ch = "\"" ->
            LET r == scanString(Lexer_next(l))
            IN  Token(IF r.ok THEN r.l ELSE Lexer_error(r.l, at, <<"unterminated string">>),
                      at, "STRING", r.lit)
      [] l.ch = "<" ->
            LET r == scanHTMLString(Lexer_next(l))
            IN  Token(IF r.ok THEN r.l
                      ELSE Lexer_error(r.l, at, <<"unterminated HTML string">>),
                      at, "HTML", r.lit)
      [] l.ch = "{" -> Token(Lexer_next(l), at, "LBRACE", <<>>)
      [] l.ch = "}" -> Token(Lexer_next(l), at, "RBRACE", <<>>)
      [] l.ch = "[" -> Token(Lexer_next(l), at, "LBRACKET", <<>>)
      [] l.ch = "]" -> Token(Lexer_next(l), at, "RBRACKET", <<>>)
      [] l.ch = ";" -> Token(Lexer_next(l), at, "SEMICOLON", <<>>)
      [] l.ch = ":" -> Token(Lexer_next(l), at, "COLON", <<>>)
      [] l.ch = "," -> Token(Lexer_next(l), at, "COMMA", <<>>)
      [] l.ch = "=" -> Token(Lexer_next(l), at, "EQUAL", <<>>)
      [] l.ch = "-" /\ ~isDigit(peek(l)) ->
            LET l1 == Lexer_next(l)
            IN  IF l1.ch = ">" THEN Token(Lexer_next(l1), at, "ARROW", <<>>)
                ELSE IF l1.ch = "-" THEN Token(Lexer_next(l1), at, "DASHDASH", <<>>)
                ELSE Token(Lexer_error(l1, at, <<"unexpected character: -">>),
                           at, "ILLEGAL", <<>>)
      [] OTHER -> illegalChar(l, at)

\* Scan: the result is [l, pos, tok, lit]
Scan(l) ==
    LET l0 == skipWhitespace(l)
        r  == skipComments([l |-> l0, pos |-> Lexer_pos(l0)])
    IN  scanToken(r.l, r.pos)

\* ------------------------------------------------------------------ parser
\* The Parser is the record p with its lexer in p.lexer. Positions of AST
\* nodes are left out; an absent (nil) part of the AST is Nil. Two fields
\* observe the run: consumed counts the calls of next, and stuck is raised by a
\* loop whose iteration made no call of next; the loop is left there, where
\* the program would go round again in the same state.
Nil == [kind |-> "nil"]

\* the zero token.Position
NoPos == [Filename |-> "", Offset |-> 0, Line |-> 0, Column |-> 0]

Ident(name, quoted, html) ==
    [kind |-> "Ident", Name |-> name, Quoted |-> quoted, HTML |-> html]

Parser_next(p) ==
    LET r == Scan(p.lexer)
    IN  [p EXCEPT !.pos = p.peekPos, !.tok = p.peekTok, !.lit = p.peekLit,
                  !.peekPos = r.pos, !.peekTok = r.tok, !.peekLit = r.lit,
                  !.lexer = r.l, !.consumed = @ + 1]

\* New: the zero Parser on lexer l, then next twice
Parser_New(l) ==
    Parser_next(Parser_next(
        [lexer |-> l, pos |-> NoPos, tok |-> "ILLEGAL", lit |-> <<>>,
         peekPos |-> NoPos, peekTok |-> "ILLEGAL", peekLit |-> <<>>,
         Errors |-> <<>>, consumed |-> 0, stuck |-> FALSE]))

\* The methods of the Parser reach one another through pcall: pcall([fn |->
\* name, p |-> parser, x |-> argument]) is the method `name` applied on p.
RECURSIVE pcall(_)

run(fn, p) == pcall([fn |-> fn, p |-> p, x |-> Nil])

runx(fn, p, x) == pcall([fn |-> fn, p |-> p, x |-> x])

\* error and errorf: msg is the formatted message, in pieces
Parser_error(p, at, msg) ==
    [p EXCEPT !.Errors = Append(p.Errors, [Pos |-> at, Msg |-> msg])]

\* the end of one iteration of a loop that began in p0 and arrived in p1
Progress(p0, p1) == IF p1.consumed > p0.consumed THEN p1 ELSE [p1 EXCEPT !.stuck = TRUE]

expect(p, tok) ==
    run("next", IF p.tok # tok
                THEN Parser_error(p, p.pos, <<"expected ", Token_String(tok), ", got ", Token_String(p.tok)>>)
                ELSE p)

isID(p) == p.tok \in {"IDENT", "STRING", "HTML"}

\* The parse methods give [p |-> the parser afterwards, v |-> the AST node]
parseIdent(p) ==
    [p |-> run("next", IF isID(p) THEN p
                       ELSE Parser_error(p, p.pos, <<"expected identifier, got ", Token_String(p.tok)>>)),
     v |-> Ident(IF isID(p) THEN p.lit ELSE <<>>, p.tok = "STRING", p.tok = "HTML")]

\* if p.isID() { x = p.parseIdent() }
optIdent(p) == IF isID(p) THEN run("parseIdent", p) ELSE [p |-> p, v |-> Nil]

parsePort(p) ==
    LET r1 == run("optIdent", expect(p, "COLON"))
        r2 == IF r1.p.tok = "COLON" THEN run("optIdent", run("next", r1.p))
              ELSE [p |-> r1.p, v |-> Nil]
    IN  [p |-> r2.p, v |-> [kind |-> "Port", ID |-> r1.v, Compass |-> r2.v]]

parseNodeID(p) ==
    LET r    == run("parseIdent", p)
        port == IF r.p.tok = "COLON" THEN run("parsePort", r.p)
                ELSE [p |-> r.p, v |-> Nil]
    IN  [p |-> port.p, v |-> [kind |-> "NodeID", ID |-> r.v, Port |-> port.v]]

\* the inner loop of parseAttrList: for p.isID() { ... }
RECURSIVE parseAList(_, _)
parseAList(p, attrs) ==
    IF ~isID(p) \/ p.stuck THEN [p |-> p, v |-> attrs]
    ELSE LET k   == run("parseIdent", p)
             val == IF k.p.tok = "EQUAL"
                    THEN LET p1 == run("next", k.p)
                         IN  IF isID(p1) THEN run("parseIdent", p1)
                             ELSE [p |-> Parser_error(p1, p1.pos,
                                                      <<"expected value after '='">>),
                                   v |-> Ident(<<>>, FALSE, FALSE)]
                    ELSE [p |-> k.p, v |-> Ident(<<"t", "r", "u", "e">>, FALSE, FALSE)]
             p2  == IF val.p.tok \in {"SEMICOLON", "COMMA"} THEN run("next", val.p)
                    ELSE val.p
         IN  parseAList(Progress(p, p2),
                        Append(attrs, [kind |-> "Attr", Key |-> k.v, Value |-> val.v]))

\* the outer loop of parseAttrList: for p.tok == token.LBRACKET { ... }
RECURSIVE parseAttrLists(_, _)
parseAttrLists(p, attrs) ==
    IF p.tok # "LBRACKET" \/ p.stuck THEN [p |-> p, v |-> attrs]
    ELSE LET r == parseAList(run("next", p), attrs)
         IN  parseAttrLists(Progress(p, expect(r.p, "RBRACKET")), r.v)

parseAttrList(p) ==
    LET r == parseAttrLists(p, <<>>)
    IN  [p |-> r.p, v |-> [kind |-> "AttrList", Attrs |-> r.v]]

\* if p.tok == token.LBRACKET { attrs = p.parseAttrList() }
optAttrList(p) ==
    IF p.tok = "LBRACKET" THEN run("parseAttrList", p) ELSE [p |-> p, v |-> Nil]

parseAttrStmt(p, kind) ==
    LET r == run("optAttrList", run("next", p))
    IN  [p |-> r.p, v |-> [kind |-> "AttrStmt", Kind |-> kind, Attrs |-> r.v]]

parseSubgraph(p) ==
    LET r1 == IF p.tok = "SUBGRAPH" THEN run("optIdent", run("next", p))
              ELSE [p |-> p, v |-> Nil]
        r2 == run("parseStmtList", expect(r1.p, "LBRACE"))
    IN  [p |-> expect(r2.p, "RBRACE"),
         v |-> [kind |-> "Subgraph", ID |-> r1.v, Statements |-> r2.v]]

\* for p.isID() { nodes = append(nodes, p.parseNodeID()) }
RECURSIVE parseGroupNodes(_, _)
parseGroupNodes(p, ns) ==
    IF ~isID(p) \/ p.stuck THEN [p |-> p, v |-> ns]
    ELSE LET r == run("parseNodeID", p)
         IN  parseGroupNodes(Progress(p, r.p), Append(ns, r.v))

\* the consumed node ids forgotten
groupStmtsNone(ns) == <<>>

\* the consumed node ids of a brace block as node statements
groupStmts(ns) ==
    [i \in 1..Len(ns) |-> [kind |-> "NodeStmt", NodeID |-> ns[i], Attrs |-> Nil]]

parseSubgraphOrGroup(p) ==
    IF p.tok = "SUBGRAPH" THEN run("parseSubgraph", p)
    ELSE LET r == parseGroupNodes(expect(p, "LBRACE"), <<>>)
         IN  IF r.p.tok = "RBRACE" /\ Len(r.v) > 0
             THEN [p |-> run("next", r.p), v |-> [kind |-> "NodeGroup", Nodes |-> r.v]]
             ELSE LET m == run("parseStmtList", r.p)
                  IN  [p |-> expect(m.p, "RBRACE"),
                       v |-> [kind |-> "Subgraph", ID |-> Nil,
                              Statements |-> groupStmts(r.v) \o m.v]]

\* the loop of parseEdgeStmt: for p.tok == ARROW || p.tok == DASHDASH { ... }
RECURSIVE parseEdgeRights(_, _)
parseEdgeRights(p, rights) ==
    IF p.tok \notin {"ARROW", "DASHDASH"} \/ p.stuck THEN [p |-> p, v |-> rights]
    ELSE LET p1 == run("next", p)
         IN  IF p1.tok \in {"SUBGRAPH", "LBRACE"} \/ isID(p1)
             THEN LET r == IF isID(p1) THEN run("parseNodeID", p1)
                           ELSE run("parseSubgraphOrGroup", p1)
                  IN  parseEdgeRights(Progress(p, r.p),
                          Append(rights, [kind |-> "EdgeRight",
                                          Directed |-> (p.tok = "ARROW"),
                                          Endpoint |-> r.v]))
             ELSE [p |-> Parser_error(p1, p1.pos,
                        <<"expected node ID or subgraph after edge operator">>),
                   v |-> rights]

parseEdgeStmt(p, left) ==
    LET r == parseEdgeRights(p, <<>>)
        a == run("optAttrList", r.p)
    IN  [p |-> a.p,
         v |-> [kind |-> "EdgeStmt", Left |-> left, Rights |-> r.v, Attrs |-> a.v]]

parseIDStmt(p) ==
    LET id == run("parseIdent", p)
    IN  IF id.p.tok = "EQUAL"
        THEN LET p1 == run("next", id.p)
             IN  IF ~isID(p1)
                 THEN [p |-> Parser_error(p1, p1.pos, <<"expected identifier after '='">>),
                       v |-> Nil]
                 ELSE LET value == run("parseIdent", p1)
                      IN  [p |-> value.p,
                           v |-> [kind |-> "AttrAssign", Key |-> id.v, Value |-> value.v]]
        ELSE LET port   == IF id.p.tok = "COLON" THEN run("parsePort", id.p)
                           ELSE [p |-> id.p, v |-> Nil]
                 nodeID == [kind |-> "NodeID", ID |-> id.v, Port |-> port.v]
             IN  IF port.p.tok \in {"ARROW", "DASHDASH"}
                 THEN runx("parseEdgeStmt", port.p, nodeID)
                 ELSE LET a == run("optAttrList", port.p)
                      IN  [p |-> a.p,
                           v |-> [kind |-> "NodeStmt", NodeID |-> nodeID, Attrs |-> a.v]]

\* the default case of parseStmt without p.next()
unexpectedTokenNoNext(p) ==
    [p |-> Parser_error(p, p.pos, <<"unexpected token ", Token_String(p.tok), " in statement">>),
     v |-> Nil]

\* the default case of parseStmt
unexpectedToken(p) ==
    [p |-> run("next", Parser_error(p, p.pos,
                                    <<"unexpected token ", Token_String(p.tok), " in statement">>)),
     v |-> Nil]

parseStmt(p) ==
    CASE p.tok = "GRAPH" -> runx("parseAttrStmt", p, "GraphAttr")
      [] p.tok = "NODE" -> runx("parseAttrStmt", p, "NodeAttr")
      [] p.tok = "EDGE" -> runx("parseAttrStmt", p, "EdgeAttr")
      [] p.tok \in {"SUBGRAPH", "LBRACE"} ->
            LET sub == run("parseSubgraph", p)
            IN  IF sub.p.tok \in {"ARROW", "DASHDASH"}
                THEN runx("parseEdgeStmt", sub.p, sub.v)
                ELSE sub
      [] isID(p) -> run("parseIDStmt", p)
      [] OTHER -> run("unexpectedToken", p)

\* the loop of parseStmtList: for p.tok != RBRACE && p.tok != EOF { ... }
RECURSIVE parseStmts(_, _)
parseStmts(p, stmts) ==
    IF p.tok \in {"RBRACE", "EOF"} \/ p.stuck THEN [p |-> p, v |-> stmts]
    ELSE LET r  == run("parseStmt", p)
             p2 == IF r.p.tok = "SEMICOLON" THEN run("next", r.p) ELSE r.p
         IN  parseStmts(Progress(p, p2), IF r.v = Nil THEN stmts ELSE Append(stmts, r.v))

parseStmtList(p) == parseStmts(p, <<>>)

parseGraph(p) ==
    LET p1 == IF p.tok = "STRICT" THEN run("next", p) ELSE p
    IN  IF p1.tok \notin {"GRAPH", "DIGRAPH"}
        THEN [p |-> Parser_error(p1, p1.pos,
                        <<"expected 'graph' or 'digraph', got ", Token_String(p1.tok)>>),
              v |-> [kind |-> "Graph", Strict |-> (p.tok = "STRICT"), Directed |-> FALSE,
                     ID |-> Nil, Statements |-> <<>>]]
        ELSE LET id == run("optIdent", run("next", p1))
                 m  == run("parseStmtList", expect(id.p, "LBRACE"))
             IN  [p |-> expect(m.p, "RBRACE"),
                  v |-> [kind |-> "Graph", Strict |-> (p.tok = "STRICT"),
                         Directed |-> (p1.tok = "DIGRAPH"), ID |-> id.v,
                         Statements |-> m.v]]

pcall(r) ==
    CASE r.fn = "next" -> Parser_next(r.p)
      [] r.fn = "parseIdent" -> parseIdent(r.p)
      [] r.fn = "optIdent" -> optIdent(r.p)
      [] r.fn = "parsePort" -> parsePort(r.p)
      [] r.fn = "parseNodeID" -> parseNodeID(r.p)
      [] r.fn = "parseAttrList" -> parseAttrList(r.p)
      [] r.fn = "optAttrList" -> optAttrList(r.p)
      [] r.fn = "parseAttrStmt" -> parseAttrStmt(r.p, r.x)
      [] r.fn = "parseSubgraph" -> parseSubgraph(r.p)
      [] r.fn = "parseSubgraphOrGroup" -> parseSubgraphOrGroup(r.p)
      [] r.fn = "parseEdgeStmt" -> parseEdgeStmt(r.p, r.x)
      [] r.fn = "parseIDStmt" -> parseIDStmt(r.p)
      [] r.fn = "unexpectedToken" -> unexpectedToken(r.p)
      [] r.fn = "parseStmt" -> parseStmt(r.p)
      [] r.fn = "parseStmtList" -> parseStmtList(r.p)
      [] r.fn = "parseGraph" -> parseGraph(r.p)

\* Error.Error(): the position, ": ", the message
Error_Error(e) == <<ToString(e.Pos), ": ">> \o e.Msg

\* strings.Join(msgs, "\n")
RECURSIVE Join(_)
Join(msgs) ==
    IF msgs = <<>> THEN <<>>
    ELSE IF Len(msgs) = 1 THEN Head(msgs)
    ELSE Head(msgs) \o <<"\n">> \o Join(Tail(msgs))

\* Parser.Parse collecting the parser's errors only
ParseErrorsOnlyParser(p) == p.Errors

\* allErrors of Parser.Parse: the lexer's errors, then the parser's
ParseErrors(p) == p.lexer.Errors \o p.Errors

\* fmt.Errorf("parse errors:\n%s", strings.Join(msgs, "\n")), nil without errors
Errorf(allErrors) ==
    IF Len(allErrors) > 0
    THEN [kind |-> "error",
          text |-> <<"parse errors:", "\n">>
                   \o Join([i \in 1..Len(allErrors) |-> Error_Error(allErrors[i])])]
    ELSE Nil

\* Parser.Parse: [p |-> the parser afterwards, g |-> the graph, err |-> the error]
Parser_Parse(p) ==
    LET r == run("parseGraph", p)
    IN  [p |-> r.p, g |-> r.v, err |-> Errorf(ParseErrors(r.p))]

\* dot.Parse
dot_Parse(filename, src) == Parser_Parse(Parser_New(Lexer_New(filename, src)))

\* The text variables of a run that converts an AST built in memory
NoLexer ==
    [src |-> <<>>, ch |-> "NUL", offset |-> 0, rdOffset |-> 0, line |-> 0, column |-> 0,
     filename |-> "", Errors |-> <<>>]

NoScan == [pos |-> NoPos, tok |-> "", lit |-> <<>>]

NoParser ==
    [lexer |-> NoLexer, pos |-> NoPos, tok |-> "", lit |-> <<>>, peekPos |-> NoPos,
     peekTok |-> "", peekLit |-> <<>>, Errors |-> <<>>, consumed |-> 0, stuck |-> FALSE]

NoParse == [g |-> Nil, err |-> Nil]

\* ------------------------------------------------------------ path validation
RECURSIVE collectPathEndpoints(_)

RECURSIVE collectPathAll(_, _)
collectPathAll(eps, i) ==
    IF i > Len(eps) THEN <<>>
    ELSE collectPathEndpoints(eps[i]) \o collectPathAll(eps, i + 1)

RECURSIVE collectPathStmts(_, _)
collectPathStmts(stmts, i) ==
    IF i > Len(stmts) THEN <<>>
    ELSE (CASE stmts[i].kind = "NodeStmt" -> <<stmts[i].id>>
            [] stmts[i].kind = "EdgeStmt" -> collectPathAll(endpointsOf(stmts[i]), 1)
            [] OTHER -> <<>>)
         \o collectPathStmts(stmts, i + 1)

collectPathEndpoints(ep) ==
    CASE ep.kind = "NodeID" -> <<ep.id>>
      [] ep.kind = "NodeGroup" -> ep.nodes
      [] ep.kind = "Subgraph" -> collectPathStmts(ep.stmts, 1)

\* nodeMap[id] = &g.Nodes[i]: the index of the node with that id
nodeIndex(g, id) == CHOOSE i \in 1..Len(g.Nodes) : g.Nodes[i].ID = id

nodeExists(g, id) == \E i \in 1..Len(g.Nodes) : g.Nodes[i].ID = id

SameDirection(g, i, source, target) ==
    g.Links[i].Source = source /\ g.Links[i].Target = target

linkMatches(g, i, source, target) ==
    \/ g.Links[i].Source = source /\ g.Links[i].Target = target
    \/ ~g.Directed /\ g.Links[i].Source = target /\ g.Links[i].Target = source

\* findLink without the reverse check for undirected graphs
findLinkSameOrientation(g, source, target) ==
    IF \E i \in 1..Len(g.Links) : SameDirection(g, i, source, target)
    THEN CHOOSE i \in 1..Len(g.Links) :
            /\ SameDirection(g, i, source, target)
            /\ \A j \in 1..(i - 1) : ~SameDirection(g, j, source, target)
    ELSE 0

\* the closure findLink: index of the first matching link, 0 for nil
findLink(g, source, target) ==
    IF \E i \in 1..Len(g.Links) : linkMatches(g, i, source, target)
    THEN CHOOSE i \in 1..Len(g.Links) :
            /\ linkMatches(g, i, source, target)
            /\ \A j \in 1..(i - 1) : ~linkMatches(g, j, source, target)
    ELSE 0

NoEdge == [Source |-> "", Target |-> "", InvalidNode |-> ""]

ValidResult ==
    [Valid |-> TRUE, HasInvalidEdge |-> FALSE, InvalidEdge |-> NoEdge, LastValidNode |-> ""]

Failure(leftID, rightID, invalid, lastValid) ==
    [Valid |-> FALSE, HasInvalidEdge |-> TRUE,
     InvalidEdge |-> [Source |-> leftID, Target |-> rightID, InvalidNode |-> invalid],
     LastValidNode |-> lastValid]

\* failNeither that adds a node for the unknown left id to the graph
failNeitherCreatesNode(v, leftID, rightID) ==
    [v EXCEPT !.g.Nodes = Append(@, NewNode(leftID)),
              !.res = Failure(leftID, rightID, leftID, ""), !.done = TRUE]

\* The three failure returns and the success branch of the innermost loop
failNeither(v, leftID, rightID) ==
    [v EXCEPT !.res = Failure(leftID, rightID, leftID, ""), !.done = TRUE]

failLeft(v, leftID, rightID) ==
    [v EXCEPT !.g.Nodes[nodeIndex(v.g, rightID)].PathInvalid = TRUE,
              !.res = Failure(leftID, rightID, leftID, rightID), !.done = TRUE]

failRight(v, leftID, rightID) ==
    [v EXCEPT !.g.Nodes[nodeIndex(v.g, leftID)].PathInvalid = TRUE,
              !.res = Failure(leftID, rightID, rightID, leftID), !.done = TRUE]

markPair(v, leftID, rightID) ==
    LET g1 == [v.g EXCEPT !.Nodes[nodeIndex(v.g, leftID)].OnPath = TRUE]
        g2 == [g1 EXCEPT !.Nodes[nodeIndex(g1, rightID)].OnPath = TRUE]
        li == findLink(g2, leftID, rightID)
    IN  [v EXCEPT !.g = IF li # 0 THEN [g2 EXCEPT !.Links[li].OnPath = TRUE] ELSE g2]

\* checkPair that also fails a pair of existing nodes without a link
checkPairNeedsLink(v, leftID, rightID) ==
    LET leftExists  == nodeExists(v.g, leftID)
        rightExists == nodeExists(v.g, rightID)
    IN  IF ~leftExists /\ ~rightExists THEN failNeither(v, leftID, rightID)
        ELSE IF ~leftExists THEN failLeft(v, leftID, rightID)
        ELSE IF ~rightExists THEN failRight(v, leftID, rightID)
        ELSE IF findLink(v.g, leftID, rightID) = 0 THEN failRight(v, leftID, rightID)
        ELSE markPair(v, leftID, rightID)

\* checkPair that treats a missing left node like a missing right node
checkPairBlamesRight(v, leftID, rightID) ==
    LET leftExists  == nodeExists(v.g, leftID)
        rightExists == nodeExists(v.g, rightID)
    IN  IF ~leftExists /\ ~rightExists THEN failNeither(v, leftID, rightID)
        ELSE IF ~leftExists
        THEN [v EXCEPT !.g.Nodes[nodeIndex(v.g, rightID)].PathInvalid = TRUE,
                       !.res = Failure(leftID, rightID, rightID, leftID), !.done = TRUE]
        ELSE IF ~rightExists THEN failRight(v, leftID, rightID)
        ELSE markPair(v, leftID, rightID)

\* checkPair that reports the right id when neither node exists
checkPairNeitherRight(v, leftID, rightID) ==
    LET leftExists  == nodeExists(v.g, leftID)
        rightExists == nodeExists(v.g, rightID)
    IN  IF ~leftExists /\ ~rightExists
        THEN [v EXCEPT !.res = Failure(leftID, rightID, rightID, ""), !.done = TRUE]
        ELSE IF ~leftExists THEN failLeft(v, leftID, rightID)
        ELSE IF ~rightExists THEN failRight(v, leftID, rightID)
        ELSE markPair(v, leftID, rightID)

\* A validation run is the record [g, res, done]: the graph with the flags
\* set so far, the result, and whether the function has returned.
\* checkPair is the body of the innermost loop for one (leftID, rightID).
checkPair(v, leftID, rightID) ==
    LET leftExists  == nodeExists(v.g, leftID)
        rightExists == nodeExists(v.g, rightID)
    IN  IF ~leftExists /\ ~rightExists THEN failNeither(v, leftID, rightID)
        ELSE IF ~leftExists THEN failLeft(v, leftID, rightID)
        ELSE IF ~rightExists THEN failRight(v, leftID, rightID)
        ELSE markPair(v, leftID, rightID)

\* checkPairs that goes on with the remaining pairs after a failing pair
RECURSIVE checkPairsNoStop(_, _, _, _, _)
checkPairsNoStop(v, lefts, rights, i, j) ==
    IF i > Len(lefts) THEN v
    ELSE IF j > Len(rights) THEN checkPairsNoStop(v, lefts, rights, i + 1, 1)
    ELSE checkPairsNoStop(checkPair(v, lefts[i], rights[j]), lefts, rights, i, j + 1)

RECURSIVE checkPairs(_, _, _, _, _)
checkPairs(v, lefts, rights, i, j) ==
    IF v.done \/ i > Len(lefts) THEN v
    ELSE IF j > Len(rights) THEN checkPairs(v, lefts, rights, i + 1, 1)
    ELSE checkPairs(checkPair(v, lefts[i], rights[j]), lefts, rights, i, j + 1)

RECURSIVE pathChain(_, _, _, _)
pathChain(v, stmt, leftNodes, k) ==
    IF v.done \/ k > Len(stmt.rights) THEN v
    ELSE LET rightNodes == collectPathEndpoints(stmt.rights[k])
         IN  pathChain(checkPairs(v, leftNodes, rightNodes, 1, 1), stmt, rightNodes, k + 1)

RECURSIVE pathStatements(_, _, _)
pathStatements(v, stmts, i) ==
    IF v.done \/ i > Len(stmts) THEN v
    ELSE IF stmts[i].kind # "EdgeStmt" THEN pathStatements(v, stmts, i + 1)
    ELSE pathStatements(pathChain(v, stmts[i], collectPathEndpoints(stmts[i].left), 1),
                        stmts, i + 1)

\* Result: [g |-> the graph with its flags set, res |-> the PathValidationResult]
\* ApplyPathHighlighting that starts from a Graph with all flags cleared
ApplyPathHighlightingFresh(g, pathStmts) ==
    LET g0 == [g EXCEPT
                 !.Nodes = [i \in 1..Len(g.Nodes) |->
                              [g.Nodes[i] EXCEPT !.OnPath = FALSE, !.PathInvalid = FALSE]],
                 !.Links = [i \in 1..Len(g.Links) |-> [g.Links[i] EXCEPT !.OnPath = FALSE]]]
        v  == pathStatements([g |-> g0, res |-> ValidResult, done |-> FALSE], pathStmts, 1)
    IN  [g |-> v.g, res |-> v.res]

ApplyPathHighlighting(g, pathStmts) ==
    LET v == pathStatements([g |-> g, res |-> ValidResult, done |-> FALSE], pathStmts, 1)
    IN  [g |-> v.g, res |-> v.res]

\* ------------------------------------------------------------------ the ASTs
NodeID(id) == [kind |-> "NodeID", id |-> id]
NodeGroup(ids) == [kind |-> "NodeGroup", nodes |-> ids]
Subgraph(id, stmts) == [kind |-> "Subgraph", id |-> id, stmts |-> stmts]
NodeStmt(id, attrs) == [kind |-> "NodeStmt", id |-> id, attrs |-> attrs]
EdgeStmt(left, rights, attrs) ==
    [kind |-> "EdgeStmt", left |-> left, rights |-> rights, attrs |-> attrs]
AttrStmt(akind, attrs) == [kind |-> "AttrStmt", akind |-> akind, attrs |-> attrs]
AttrAssign(key, value) == [kind |-> "AttrAssign", key |-> key, value |-> value]
NoStmt == [kind |-> "none"]

\* n0 op n1 op ... op nk over plain node ids, ids = <<n0, ..., nk>>
Chain(ids, attrs) ==
    EdgeStmt(NodeID(ids[1]), [i \in 1..(Len(ids) - 1) |-> NodeID(ids[i + 1])], attrs)

ChainIds == UNION {[1..n -> Ids] : n \in 2..(MaxHops + 1)}

Attr(k, v) == <<<<k, v>>>>

\* Statements of the graph AST, all kinds
NodeStmts ==
    {NodeStmt(id, <<>>) : id \in Ids}
    \cup {NodeStmt("A", Attr("color", "blue")),
          NodeStmt("A", Attr("label", "L") \o Attr("w", "1")),
          NodeStmt("B", Attr("fillcolor", "pink"))}

AttrStmts ==
    {AttrStmt("node", Attr("color", "red")),
     AttrStmt("node", Attr("fillcolor", "green")),
     AttrStmt("node", Attr("label", "D") \o Attr("w", "2")),
     AttrStmt("edge", Attr("color", "blue")),
     AttrStmt("graph", Attr("color", "red"))}

EdgeStmts ==
    {Chain(<<"A", "B">>, <<>>), Chain(<<"B", "C">>, <<>>),
     Chain(<<"A", "B", "C">>, <<>>),
     Chain(<<"A", "B">>, Attr("color", "red") \o Attr("w", "3")),
     EdgeStmt(NodeID("A"), <<NodeGroup(<<"B", "C">>)>>, <<>>),
     EdgeStmt(NodeID("A"), <<Subgraph("", <<>>), NodeID("C")>>, <<>>),
     EdgeStmt(NodeID("A"),
              <<Subgraph("s2", <<NodeStmt("B", <<>>), Chain(<<"B", "C">>, <<>>)>>)>>, <<>>),
     EdgeStmt(NodeID("A"),
              <<Subgraph("", <<AttrStmt("node", Attr("shape", "box")), NodeStmt("B", <<>>)>>)>>,
              <<>>)}

SubgraphStmts ==
    {Subgraph("s1", <<NodeStmt("A", <<>>)>>),
     Subgraph("s2", <<NodeStmt("A", <<>>), NodeStmt("B", <<>>)>>),
     Subgraph("s1", <<Chain(<<"A", "B">>, <<>>), Chain(<<"A", "C">>, <<>>)>>),
     Subgraph("s2", <<AttrAssign("label", "S"), Chain(<<"B", "C">>, <<>>)>>),
     Subgraph("", <<AttrStmt("node", Attr("color", "red")), NodeStmt("C", <<>>)>>),
     Subgraph("s1", <<Subgraph("s2", <<NodeStmt("C", <<>>)>>), NodeStmt("A", <<>>)>>),
     Subgraph("s1", <<EdgeStmt(NodeID("A"),
                               <<Subgraph("", <<Chain(<<"B", "C">>, <<>>)>>)>>, <<>>)>>)}

StmtPool ==
    NodeStmts \cup AttrStmts \cup EdgeStmts \cup SubgraphStmts
    \cup {AttrAssign("label", "G")}

\* ------------------------------------------------------------- state machine
Conv(ord) ==
    [nodes |-> nodes, links |-> links, subgraphs |-> subgraphs,
     nodeDefaults |-> nodeDefaults, edgeDefaults |-> edgeDefaults,
     directed |-> directed, strict |-> strict, graphID |-> graphID, ord |-> ord]

\* The keys that statement s can add to the node defaults
RECURSIVE defaultKeys(_)
defaultKeys(s) ==
    CASE s.kind = "AttrStmt" ->
            IF s.akind = "node" THEN {s.attrs[i][1] : i \in 1..Len(s.attrs)} ELSE {}
      [] s.kind = "Subgraph" -> UNION {defaultKeys(s.stmts[i]) : i \in 1..Len(s.stmts)}
      [] OTHER -> {}

\* The iteration orders worth telling apart for one top-level statement: all
\* of them once the node defaults can hold both "color" and "fillcolor".
Orders(s) ==
    IF {"color", "fillcolor"} \subseteq (DOMAIN nodeDefaults) \cup defaultKeys(s)
    THEN [Ids -> BOOLEAN]
    ELSE {[id \in Ids |-> TRUE]}

\* the loop appending the address of the loop variable: every entry is the
\* node visited last
PermsAliased(S) == {[i \in 1..Cardinality(S) |-> x] : x \in S}

\* for _, n := range c.nodes: the orders in which the map may be visited
Perms(S) == {f \in [1..Cardinality(S) -> S] : \A i, j \in DOMAIN f : f[i] = f[j] => i = j}

\* Convert, up to processStatements: the Converter as constructed, for the
\* graphs `digraph G`, `strict graph G`, `graph` and `strict digraph`
Init ==
    /\ pc = "converting"
    /\ directed \in BOOLEAN
    /\ strict \in BOOLEAN
    /\ graphID = (IF directed # strict THEN "G" ELSE "")
    /\ nodes = EmptyMap
    /\ links = <<>>
    /\ subgraphs = <<>>
    /\ nodeDefaults = EmptyMap
    /\ edgeDefaults = EmptyMap
    /\ Nodes = <<>>
    /\ result = ValidResult
    /\ last = NoStmt
    /\ path = <<>>
    /\ nstmts = 0
    /\ ncalls = 0
    /\ input = <<>>
    /\ lexer = NoLexer
    /\ scan = NoScan
    /\ parser = NoParser
    /\ parsed = NoParse

\* One iteration of the loop of processStatements called from Convert
ProcessStatement(s) ==
    /\ pc = "converting"
    /\ nstmts < MaxStmts
    /\ \E ord \in Orders(s) :
         LET c == call([fn |-> "processStatement", c |-> Conv(ord), x |-> s, sg |-> ""]) IN
         /\ nodes' = c.nodes
         /\ links' = c.links
         /\ subgraphs' = c.subgraphs
         /\ nodeDefaults' = c.nodeDefaults
         /\ edgeDefaults' = c.edgeDefaults
    /\ last' = s
    /\ nstmts' = nstmts + 1
    /\ UNCHANGED <<pc, graphID, directed, strict, Nodes, result, path, ncalls>>
    /\ UNCHANGED textVars

\* The end of Convert: g.Nodes is filled by ranging over the map c.nodes, in
\* an order Go does not fix; the Converter is dropped.
ConvertReturn ==
    /\ pc = "converting"
    /\ \E order \in Perms(DOMAIN nodes) :
         Nodes' = [i \in 1..Len(order) |-> nodes[order[i]]]
    /\ pc' = "returned"
    /\ nodes' = EmptyMap
    /\ nodeDefaults' = EmptyMap
    /\ edgeDefaults' = EmptyMap
    /\ last' = NoStmt
    /\ nstmts' = 0
    /\ UNCHANGED <<graphID, directed, strict, links, subgraphs, result, path, ncalls>>
    /\ UNCHANGED textVars

\* The Graph that Convert returned
Graph ==
    [Nodes |-> Nodes, Links |-> links, Directed |-> directed, Strict |-> strict,
     GraphID |-> graphID, Subgraphs |-> subgraphs]

Highlight(p) ==
    /\ pc = "returned"
    /\ ncalls = 0
    /\ LET r == ApplyPathHighlighting(Graph, p) IN
         /\ Nodes' = r.g.Nodes
         /\ links' = r.g.Links
         /\ result' = r.res
    /\ path' = p
    /\ ncalls' = 1
    /\ UNCHANGED <<pc, graphID, directed, strict, nodes, subgraphs, nodeDefaults,
                   edgeDefaults, last, nstmts>>
    /\ UNCHANGED textVars

Next ==
    \/ \E s \in StmtPool : ProcessStatement(s)
    \/ ConvertReturn

Spec == Init /\ [][Next]_vars

\* Graph ASTs made of edge statements: every chain over A and B, and chains
\* that reach C
EdgePool ==
    {Chain(ids, <<>>) : ids \in {c \in ChainIds : \A i \in 1..Len(c) : c[i] # "C"}}
    \cup {Chain(<<"B", "C">>, <<>>), Chain(<<"C", "A">>, <<>>), Chain(<<"A", "B", "C">>, <<>>),
          Chain(<<"A", "B">>, Attr("color", "red")),
          Chain(<<"A", "B", "C">>, Attr("label", "e") \o Attr("color", "red")),
          EdgeStmt(NodeID("A"), <<NodeGroup(<<"B", "C">>)>>, <<>>),
          EdgeStmt(NodeID("A"), <<NodeGroup(<<"B", "C", "A">>)>>, <<>>),
          EdgeStmt(NodeGroup(<<"A", "B">>), <<NodeGroup(<<"B", "C">>)>>, <<>>),
          EdgeStmt(NodeGroup(<<"B", "C">>), <<NodeID("A"), NodeGroup(<<"C", "B">>)>>,
                   Attr("w", "3")),
          AttrStmt("edge", Attr("color", "blue")),
          AttrStmt("node", Attr("color", "red"))}

NextEdges ==
    \/ \E s \in EdgePool : nstmts < MaxEdgeStmts /\ ProcessStatement(s)
    \/ ConvertReturn

SpecEdges == Init /\ [][NextEdges]_vars

\* Graphs to validate paths against, and the path ASTs
PathGraphPool ==
    {Chain(<<"A", "B">>, <<>>), Chain(<<"B", "A">>, <<>>), Chain(<<"B", "C">>, <<>>),
     NodeStmt("C", <<>>)}

PathStmts ==
    {Chain(ids, <<>>) : ids \in {c \in ChainIds : c[1] = "A"}}
    \cup {EdgeStmt(NodeID("A"), <<NodeGroup(<<"B", "C">>)>>, <<>>),
          EdgeStmt(NodeGroup(<<"A", "C">>), <<NodeID("B")>>, <<>>),
          EdgeStmt(NodeGroup(<<"A", "B">>), <<NodeGroup(<<"B", "C">>)>>, <<>>),
          EdgeStmt(NodeID("A"), <<Subgraph("", <<>>), NodeID("C")>>, <<>>),
          EdgeStmt(NodeID("A"),
                   <<Subgraph("", <<NodeStmt("B", <<>>), NodeStmt("C", <<>>)>>)>>, <<>>),
          EdgeStmt(Subgraph("", <<Chain(<<"A", "B">>, <<>>)>>), <<NodeID("C")>>, <<>>),
          NodeStmt("C", <<>>),
          Subgraph("", <<Chain(<<"C", "A">>, <<>>)>>)}

PathPairStmts ==
    {Chain(<<"A", "B">>, <<>>), Chain(<<"B", "C">>, <<>>), Chain(<<"C", "A">>, <<>>),
     NodeStmt("C", <<>>)}

PathPool ==
    {<<s>> : s \in PathStmts} \cup {<<s, u>> : s, u \in PathPairStmts}
    \cup {<<Chain(<<"A", "B">>, <<>>), Chain(<<"C", "A">>, <<>>), Chain(<<"B", "A">>, <<>>)>>}

NextPath ==
    \/ \E s \in PathGraphPool : ProcessStatement(s)
    \/ ConvertReturn
    \/ \E p \in PathPool : Highlight(p)

SpecPath == Init /\ [][NextPath]_vars

\* Graph ASTs whose statements mention the same ids at the top level, inside
\* named, anonymous and nested subgraphs, and as edge endpoints
GroupPool ==
    {NodeStmt("A", <<>>),
     Chain(<<"A", "B">>, <<>>),
     EdgeStmt(NodeGroup(<<"A", "B">>), <<NodeID("C")>>, <<>>),
     Subgraph("s1", <<NodeStmt("A", <<>>), NodeStmt("B", <<>>)>>),
     Subgraph("s2", <<NodeStmt("A", <<>>)>>),
     Subgraph("s2", <<Chain(<<"A", "B">>, <<>>), Chain(<<"A", "C">>, <<>>)>>),
     Subgraph("s1", <<Subgraph("s2", <<NodeStmt("B", <<>>)>>), NodeStmt("C", <<>>)>>),
     Subgraph("", <<NodeStmt("A", <<>>)>>),
     EdgeStmt(NodeID("A"), <<Subgraph("s2", <<NodeStmt("B", <<>>)>>)>>, <<>>),
     EdgeStmt(Subgraph("", <<Chain(<<"B", "C">>, <<>>)>>), <<NodeID("A")>>, <<>>),
     EdgeStmt(NodeID("A"),
              <<Subgraph("", <<Subgraph("s2", <<NodeStmt("B", <<>>)>>), NodeStmt("C", <<>>)>>)>>,
              <<>>)}

NextGroups ==
    \/ \E s \in GroupPool : ProcessStatement(s)
    \/ ConvertReturn

SpecGroups == Init /\ [][NextGroups]_vars

\* A further call of ApplyPathHighlighting on the Graph of the earlier calls
HighlightAgain(p) ==
    /\ pc = "returned"
    /\ ncalls >= 1
    /\ ncalls < MaxCalls
    /\ LET r == ApplyPathHighlighting(Graph, p) IN
         /\ Nodes' = r.g.Nodes
         /\ links' = r.g.Links
         /\ result' = r.res
    /\ path' = p
    /\ ncalls' = ncalls + 1
    /\ UNCHANGED <<pc, graphID, directed, strict, nodes, subgraphs, nodeDefaults,
                   edgeDefaults, last, nstmts>>
    /\ UNCHANGED textVars

\* Graphs and paths for several validations of one Graph
RepeatGraphPool ==
    {Chain(<<"A", "B">>, <<>>), Chain(<<"B", "C">>, <<>>), NodeStmt("C", <<>>)}

RepeatPathPool ==
    {<<Chain(<<"A", "B">>, <<>>)>>, <<Chain(<<"B", "C">>, <<>>)>>,
     <<Chain(<<"C", "A">>, <<>>)>>, <<Chain(<<"A", "B", "C">>, <<>>)>>,
     <<Chain(<<"A", "B">>, <<>>), Chain(<<"C", "A">>, <<>>)>>}

NextRepeat ==
    \/ \E s \in RepeatGraphPool : nstmts < MaxEdgeStmts /\ ProcessStatement(s)
    \/ ConvertReturn
    \/ \E p \in RepeatPathPool : Highlight(p)
    \/ \E p \in RepeatPathPool : HighlightAgain(p)

SpecRepeat == Init /\ [][NextRepeat]_vars

\* --------------------------------------------------------- the lexer alone
\* The text of an input given as pieces
RECURSIVE Text(_)
Text(pieces) == IF pieces = <<>> THEN <<>> ELSE Head(pieces) \o Text(Tail(pieces))

\* The text "abc
AbcOpen == <<(<<"\"">>), (<<"a">>), (<<"b">>), (<<"c">>)>>

LexChars ==
    {"a", "n", "1", "\"", "\\", "\n", " ", "-", ">", "/", "*", "<", ".", "#", "?", "\f"}

\* Every text of at most MaxLen characters, and the literal "abc left open
LexInputs ==
    UNION {[1..n -> {<<ch>> : ch \in LexChars}] : n \in 0..MaxLen}
    \cup {AbcOpen}

\* Before the lexer is constructed
InitLexer ==
    /\ pc = "source"
    /\ input = <<>>
    /\ lexer = NoLexer
    /\ scan = NoScan
    /\ parser = NoParser
    /\ parsed = NoParse
    /\ directed = FALSE
    /\ strict = FALSE
    /\ graphID = ""
    /\ nodes = EmptyMap
    /\ links = <<>>
    /\ subgraphs = <<>>
    /\ nodeDefaults = EmptyMap
    /\ edgeDefaults = EmptyMap
    /\ Nodes = <<>>
    /\ result = ValidResult
    /\ last = NoStmt
    /\ path = <<>>
    /\ nstmts = 0
    /\ ncalls = 0

\* lexer.New on a source text
NewLexer ==
    /\ pc = "source"
    /\ pc' = "scanning"
    /\ input' \in LexInputs
    /\ lexer' = Lexer_New("test", Text(input'))
    /\ UNCHANGED <<graphID, directed, strict, nodes, links, subgraphs, nodeDefaults,
                   edgeDefaults, Nodes, result, last, path, nstmts, ncalls,
                   scan, parser, parsed>>

\* One call of l.Scan()
ScanStep ==
    /\ pc = "scanning"
    /\ LET r == Scan(lexer) IN
         /\ lexer' = r.l
         /\ scan' = [pos |-> r.pos, tok |-> r.tok, lit |-> r.lit]
    /\ UNCHANGED <<pc, graphID, directed, strict, nodes, links, subgraphs, nodeDefaults,
                   edgeDefaults, Nodes, result, last, path, nstmts, ncalls,
                   input, parser, parsed>>

NextLexer == NewLexer \/ ScanStep

SpecLexer == InitLexer /\ [][NextLexer]_vars

\* ------------------------------------------------------- lexer and parser
\* The text of an input given as words: each word is followed by a space
RECURSIVE Words(_)
Words(pieces) ==
    IF pieces = <<>> THEN <<>> ELSE Head(pieces) \o <<" ">> \o Words(Tail(pieces))

KwDigraph == <<"d", "i", "g", "r", "a", "p", "h">>
KwNode == <<"n", "o", "d", "e">>
Arrow == <<"-", ">">>

\* One token each: keywords, punctuation, an id, a character the lexer
\* rejects, and a string left open
SoupPool ==
    {<<"s", "u", "b", "g", "r", "a", "p", "h">>, KwNode, Arrow, <<"A">>, <<"{">>, <<"}">>,
     <<"[">>, <<"]">>, <<"=">>, <<";">>, <<":">>, <<"?">>, <<"\"", "a">>}

\* ws before each of the sequences of S, and after it
Wrap(before, S, after) == {before \o s \o after : s \in S}

\* Token streams, well-formed or not: bare, as the body of a graph, and after
\* the first id of a statement
SoupInputs ==
    LET Soup == UNION {[1..n -> SoupPool] : n \in 0..MaxToks}
    IN  Soup \cup Wrap(<<KwDigraph, <<"{">> >>, Soup, << <<"}">> >>)
             \cup Wrap(<<KwDigraph, <<"{">>, <<"A">> >>, Soup, << <<"}">> >>)

\* The words of a brace block: ids, one with a port, a semicolon, an
\* attribute list, an edge to D, and an attribute statement
BracePool ==
    {<<"B">>, <<"C", ":", "p">>, <<";">>, <<"[", "x", "=", "y", "]">>, <<"-", ">", "D">>,
     KwNode}

\* digraph { A -> { B C D } }
EdgeShorthand ==
    <<KwDigraph, <<"{">>, <<"A">>, Arrow, <<"{">>, <<"B">>, <<"C">>, <<"D">>, <<"}">>,
      <<"}">> >>

\* A brace block as the right endpoint of an edge, as the left endpoint, and
\* as a statement: digraph { A -> { .. } }, digraph { { .. } -> A } and
\* digraph { { .. } }
BraceInputs ==
    LET Bodies == UNION {[1..n -> BracePool] : n \in 0..MaxToks}
    IN  Wrap(<<KwDigraph, <<"{">>, <<"A">>, Arrow, <<"{">> >>, Bodies,
             << <<"}">>, <<"}">> >>)
        \cup Wrap(<<KwDigraph, <<"{">>, <<"{">> >>, Bodies,
                  << <<"}">>, Arrow, <<"A">>, <<"}">> >>)
        \cup Wrap(<<KwDigraph, <<"{">>, <<"{">> >>, Bodies, << <<"}">>, <<"}">> >>)
        \cup {EdgeShorthand}

\* dot.Parse up to parser.New, on one of the texts of S
NewParser(S) ==
    /\ pc = "source"
    /\ pc' = "parsing"
    /\ input' \in S
    /\ parser' = Parser_New(Lexer_New("test", Words(input')))
    /\ UNCHANGED <<graphID, directed, strict, nodes, links, subgraphs, nodeDefaults,
                   edgeDefaults, Nodes, result, last, path, nstmts, ncalls,
                   lexer, scan, parsed>>

\* p.Parse()
ParseStep ==
    /\ pc = "parsing"
    /\ pc' = "parsed"
    /\ \E r \in {Parser_Parse(parser)} :
         /\ parser' = r.p
         /\ parsed' = [g |-> r.g, err |-> r.err]
    /\ UNCHANGED <<graphID, directed, strict, nodes, links, subgraphs, nodeDefaults,
                   edgeDefaults, Nodes, result, last, path, nstmts, ncalls,
                   input, lexer, scan>>

NextParse == NewParser(SoupInputs) \/ ParseStep

SpecParse == InitLexer /\ [][NextParse]_vars

NextBraces == NewParser(BraceInputs) \/ ParseStep

SpecBraces == InitLexer /\ [][NextBraces]_vars

\* ------------------------------------------------- keywords in any case
\* kw with the letters at the positions of up in upper case
WithUpper(kw, up) ==
    [i \in 1..Len(kw) |->
        IF i \in up THEN UpperCase[CHOOSE k \in 1..Len(LowerCase) : LowerCase[k] = kw[i]]
        ELSE kw[i]]

\* a keyword as digraph, DIGRAPH and DiGraph
KwVariants(kw) == {kw, WithUpper(kw, 1..Len(kw)), WithUpper(kw, {1, 3})}

KwStrict == <<"s", "t", "r", "i", "c", "t">>
KwGraph == <<"g", "r", "a", "p", "h">>
KwEdge == <<"e", "d", "g", "e">>
KwSubgraph == <<"s", "u", "b", "g", "r", "a", "p", "h">>

\* Statements, as words: node [ x = Y ], edge [ x = Y ], subgraph S { Ab },
\* Ab, and Ab -> Node1, every keyword in its three spellings
CaseStmts ==
    {<<k, <<"[">>, <<"x">>, <<"=">>, <<"Y">>, <<"]">> >> :
        k \in KwVariants(KwNode) \cup KwVariants(KwEdge)}
    \cup {<<k, <<"S">>, <<"{">>, <<"A", "b">>, <<"}">> >> : k \in KwVariants(KwSubgraph)}
    \cup {<< <<"A", "b">> >>, << <<"A", "b">>, Arrow, <<"N", "o", "d", "e", "1">> >>}

\* digraph and strict graph, in their spellings
CaseHeaders ==
    {<<k>> : k \in KwVariants(KwDigraph)}
    \cup {<<s, g>> : s \in KwVariants(KwStrict), g \in KwVariants(KwGraph)}

RECURSIVE Flatten(_)
Flatten(ss) == IF ss = <<>> THEN <<>> ELSE Head(ss) \o Flatten(Tail(ss))

CaseInputs ==
    {h \o << <<"{">> >> \o Flatten(body) \o << <<"}">> >> :
        h \in CaseHeaders, body \in UNION {[1..n -> CaseStmts] : n \in 0..MaxCaseStmts}}

NextCase == NewParser(CaseInputs) \/ ParseStep

SpecCase == InitLexer /\ [][NextCase]_vars

\* ===================================================================== claims
\* The (Source, Target) pairs of a list of links, in order
Pairs(ls) == [i \in 1..Len(ls) |-> <<ls[i].Source, ls[i].Target>>]

\* L x R as a sequence, left-major
Cross(L, R) ==
    [n \in 1..(Len(L) * Len(R)) |->
        <<L[((n - 1) \div Len(R)) + 1], R[((n - 1) % Len(R)) + 1]>>]

\* The id list of an endpoint that is a node id or a node group
EndpointIds(ep) == IF ep.kind = "NodeID" THEN <<ep.id>> ELSE ep.nodes

FlatEndpoints(s) ==
    /\ s.kind = "EdgeStmt"
    /\ \A i \in 1..Len(endpointsOf(s)) : endpointsOf(s)[i].kind \in {"NodeID", "NodeGroup"}

PlainEndpoints(s) ==
    /\ s.kind = "EdgeStmt"
    /\ \A i \in 1..Len(endpointsOf(s)) : endpointsOf(s)[i].kind = "NodeID"

\* The pairs of all hops of an edge statement with flat endpoints, hop by hop
RECURSIVE HopPairs(_, _)
HopPairs(eps, k) ==
    IF k >= Len(eps) THEN <<>>
    ELSE Cross(EndpointIds(eps[k]), EndpointIds(eps[k + 1])) \o HopPairs(eps, k + 1)

StmtIds(s) ==
    UNION {{EndpointIds(endpointsOf(s)[i])[j] : j \in 1..Len(EndpointIds(endpointsOf(s)[i]))} :
            i \in 1..Len(endpointsOf(s))}

SamePair(l, a, b) == l.Source = a /\ l.Target = b

\* A top-level statement has just been processed in this step
StmtStep == pc' = "converting" /\ nstmts' = nstmts + 1

\* C1: in a strict graph Links never holds two links with the same
\* (Source, Target), nor, when the graph is undirected, two links joining the
\* same unordered pair; and after a strict `A -> B` statement there is exactly
\* one link for (A, B) however often the pair was given before.
C1_StrictNoDuplicateLinks ==
    strict =>
        /\ \A i, j \in 1..Len(links) :
              i # j =>
                /\ ~SamePair(links[i], links[j].Source, links[j].Target)
                /\ ~directed => ~SamePair(links[i], links[j].Target, links[j].Source)
        /\ (pc = "converting" /\ PlainEndpoints(last)) =>
              \A k \in 1..Len(last.rights) :
                 LET a == endpointsOf(last)[k].id
                     b == endpointsOf(last)[k + 1].id
                 IN  Cardinality({i \in 1..Len(links) :
                        \/ SamePair(links[i], a, b)
                        \/ ~directed /\ SamePair(links[i], b, a)}) = 1

\* a strict undirected `A -- B -- A`: the second hop repeats the first pair
\* in the other orientation and is dropped
C1_Witness ==
    /\ strict /\ ~directed /\ pc = "converting" /\ nstmts = 1
    /\ last = Chain(<<"A", "B", "A">>, <<>>)
    /\ Pairs(links) = <<(<<"A", "B">>)>>

\* C2: in a non-strict graph an edge statement n0 op n1 ... op nk over plain
\* node ids appends exactly the k links (n0,n1), (n1,n2), ..., (n(k-1),nk), in
\* that order, and materializes exactly its ids as nodes.
C2_ChainAppendsHops ==
    [][(StmtStep /\ ~strict /\ PlainEndpoints(last')) =>
          /\ Pairs(links') = Pairs(links) \o
                [k \in 1..Len(last'.rights) |->
                    <<endpointsOf(last')[k].id, endpointsOf(last')[k + 1].id>>]
          /\ DOMAIN nodes' = (DOMAIN nodes) \cup StmtIds(last')]_vars

\* `digraph { A -> B -> C }`
C2_Witness ==
    /\ ~strict /\ directed /\ pc = "converting" /\ nstmts = 1
    /\ last = Chain(<<"A", "B", "C">>, <<>>)
    /\ Pairs(links) = <<(<<"A", "B">>), (<<"B", "C">>)>>
    /\ DOMAIN nodes = {"A", "B", "C"}

\* C3: in a non-strict graph every hop of an edge statement over node ids and
\* node groups appends the cross product of its left and right id lists, in
\* left-major order, and every id of the statement is a node afterwards.
C3_HopsAreCrossProducts ==
    [][(StmtStep /\ ~strict /\ FlatEndpoints(last')) =>
          /\ Pairs(links') = Pairs(links) \o HopPairs(endpointsOf(last'), 1)
          /\ StmtIds(last') \subseteq DOMAIN nodes']_vars

\* `{B C} -> A -> {C B}` on an empty graph: B->A, C->A, then A->C, A->B
C3_Witness ==
    /\ ~strict /\ pc = "converting" /\ nstmts = 1
    /\ last = EdgeStmt(NodeGroup(<<"B", "C">>), <<NodeID("A"), NodeGroup(<<"C", "B">>)>>,
                       Attr("w", "3"))
    /\ Pairs(links) = <<(<<"B", "A">>), (<<"C", "A">>), (<<"A", "C">>), (<<"A", "B">>)>>
    /\ DOMAIN nodes = {"A", "B", "C"}

\* Statement s holds a node statement for id that gives a color explicitly
RECURSIVE GivesColor(_, _)
GivesColor(s, id) ==
    CASE s.kind = "NodeStmt" ->
            /\ s.id = id
            /\ \E i \in 1..Len(s.attrs) : s.attrs[i][1] \in {"color", "fillcolor"}
      [] s.kind = "Subgraph" -> \E i \in 1..Len(s.stmts) : GivesColor(s.stmts[i], id)
      [] OTHER -> FALSE

\* C4 (as claimed, for the color attribute): the color that a node statement gives X explicitly is
\* still X's color after the next statement, whatever that statement is,
\* unless it is itself a node statement giving X a color.
C4_ExplicitSurvives ==
    [][\A id \in DOMAIN nodes :
          (StmtStep /\ last.kind = "NodeStmt" /\ GivesColor(last, id)
             /\ ~GivesColor(last', id))
          => nodes'[id].Color = nodes[id].Color]_vars

\* The node field that default key k is written to
FieldOf(node, k) ==
    CASE k = "label" -> node.Label
      [] k \in {"color", "fillcolor"} -> node.Color
      [] k = "shape" -> node.Shape
      [] k = "style" -> node.Style
      [] OTHER -> Get(node.Attributes, k)

\* C5 (as claimed): resolving the endpoints of an edge statement writes
\* defaults only into nodes that the statement materializes: a node that
\* existed before keeps every field, and a new node gets D[k] in the field of
\* each default key k (where no other default key writes the same field).
C5_DefaultsOnlyAtFirstMaterialization ==
    [][(StmtStep /\ PlainEndpoints(last')) =>
          /\ \A id \in DOMAIN nodes : nodes'[id] = nodes[id]
          /\ \A id \in StmtIds(last') \ DOMAIN nodes :
                \A k \in DOMAIN nodeDefaults :
                   ({"color", "fillcolor"} \subseteq DOMAIN nodeDefaults
                      /\ k \in {"color", "fillcolor"})
                   \/ FieldOf(nodes'[id], k) = nodeDefaults[k]]_vars

\* ------------------------------------------------------------ path claims
RECURSIVE PathHopPairs(_, _)
PathHopPairs(eps, k) ==
    IF k >= Len(eps) THEN <<>>
    ELSE Cross(collectPathEndpoints(eps[k]), collectPathEndpoints(eps[k + 1]))
         \o PathHopPairs(eps, k + 1)

\* The (leftId, rightId) pairs of a path AST in the order of examination:
\* edge statements in source order, hops left to right, left-major
RECURSIVE PathPairs(_, _)
PathPairs(p, i) ==
    IF i > Len(p) THEN <<>>
    ELSE (IF p[i].kind = "EdgeStmt" THEN PathHopPairs(endpointsOf(p[i]), 1) ELSE <<>>)
         \o PathPairs(p, i + 1)

NodeIdSet == {Nodes[i].ID : i \in 1..Len(Nodes)}

NodeOf(id) == Nodes[CHOOSE i \in 1..Len(Nodes) : Nodes[i].ID = id]

Fails(pr) == pr[1] \notin NodeIdSet \/ pr[2] \notin NodeIdSet

\* Index of the first failing pair of the path validated last, 0 when none
FirstFail ==
    LET ps == PathPairs(path, 1)
    IN  IF \E n \in 1..Len(ps) : Fails(ps[n])
        THEN CHOOSE n \in 1..Len(ps) : Fails(ps[n]) /\ \A m \in 1..(n - 1) : ~Fails(ps[m])
        ELSE 0

\* The pairs that validation reaches and finds present: those before the
\* first failing pair
Reached ==
    LET ps == PathPairs(path, 1)
    IN  IF FirstFail = 0 THEN {ps[n] : n \in 1..Len(ps)}
        ELSE {ps[n] : n \in 1..(FirstFail - 1)}

Joins(l, pr) ==
    \/ SamePair(l, pr[1], pr[2])
    \/ ~directed /\ SamePair(l, pr[2], pr[1])

Validated == pc = "returned" /\ ncalls = 1

FlatPath ==
    \A i \in 1..Len(path) : path[i].kind = "EdgeStmt" => FlatEndpoints(path[i])

PathIds == UNION {StmtIds(path[i]) : i \in {j \in 1..Len(path) : path[j].kind = "EdgeStmt"}}

C7_EveryExistingPairMarked ==
    Validated =>
        LET ps == PathPairs(path, 1) IN
        /\ \A n \in 1..Len(ps) :
              ~Fails(ps[n]) =>
                 /\ NodeOf(ps[n][1]).OnPath /\ NodeOf(ps[n][2]).OnPath
                 /\ (\E i \in 1..Len(links) : Joins(links[i], ps[n]))
                       => \E i \in 1..Len(links) : Joins(links[i], ps[n]) /\ links[i].OnPath
        /\ \A i \in 1..Len(Nodes) :
              Nodes[i].OnPath => \E n \in 1..Len(ps) : Nodes[i].ID \in {ps[n][1], ps[n][2]}
        /\ \A i \in 1..Len(links) :
              links[i].OnPath => \E n \in 1..Len(ps) : Joins(links[i], ps[n])

\* C7 (amended): after the validation of a freshly converted graph, for every pair
\* examined before the first failing pair (every pair of a valid path), both
\* nodes are on-path and, when a link joins them (in either orientation if the
\* graph is undirected), such a link is on-path; every other node and link
\* has OnPath = false.
C7_OnPathMarksPairs ==
    Validated =>
        /\ \A pr \in Reached :
              /\ NodeOf(pr[1]).OnPath /\ NodeOf(pr[2]).OnPath
              /\ (\E i \in 1..Len(links) : Joins(links[i], pr))
                    => \E i \in 1..Len(links) : Joins(links[i], pr) /\ links[i].OnPath
        /\ \A i \in 1..Len(Nodes) :
              Nodes[i].OnPath => \E pr \in Reached : Nodes[i].ID \in {pr[1], pr[2]}
        /\ \A i \in 1..Len(links) :
              links[i].OnPath => \E pr \in Reached : Joins(links[i], pr)

\* graph `digraph{A->B->C}` with path `digraph{A->B}`
C7_Witness ==
    /\ Validated /\ directed /\ result.Valid
    /\ path = <<Chain(<<"A", "B">>, <<>>)>>
    /\ Pairs(links) = <<(<<"A", "B">>), (<<"B", "C">>)>>
    /\ NodeOf("A").OnPath /\ NodeOf("B").OnPath /\ ~NodeOf("C").OnPath
    /\ links[1].OnPath /\ ~links[2].OnPath

\* C8: when validation stops at a pair with exactly one id present, the
\* present node is path-invalid and the result is the failure for that pair:
\* InvalidNode the missing id, LastValidNode the present id, on either side.
C8_OneMissing ==
    (Validated /\ FirstFail # 0) =>
        LET pr == PathPairs(path, 1)[FirstFail] IN
        /\ (pr[1] \in NodeIdSet /\ pr[2] \notin NodeIdSet) =>
              /\ result = Failure(pr[1], pr[2], pr[2], pr[1])
              /\ NodeOf(pr[1]).PathInvalid
        /\ (pr[1] \notin NodeIdSet /\ pr[2] \in NodeIdSet) =>
              /\ result = Failure(pr[1], pr[2], pr[1], pr[2])
              /\ NodeOf(pr[2]).PathInvalid

\* graph `digraph{A->B}`, path `digraph{C->A; C}`: the left id is the missing one
C8_Witness ==
    /\ Validated /\ NodeIdSet = {"A", "B"}
    /\ path = <<Chain(<<"C", "A">>, <<>>), NodeStmt("C", <<>>)>>
    /\ result = Failure("C", "A", "C", "A")
    /\ NodeOf("A").PathInvalid /\ ~NodeOf("B").PathInvalid

\* C9: when validation stops at a pair with neither id present, the result
\* is the failure with InvalidNode the left id and an empty LastValidNode,
\* and no node is made path-invalid.
C9_NeitherExists ==
    (Validated /\ FirstFail # 0) =>
        LET pr == PathPairs(path, 1)[FirstFail] IN
        (pr[1] \notin NodeIdSet /\ pr[2] \notin NodeIdSet) =>
            /\ result = Failure(pr[1], pr[2], pr[1], "")
            /\ \A i \in 1..Len(Nodes) : ~Nodes[i].PathInvalid

\* graph `digraph { C }`, path `digraph { A -> B }`
C9_Witness ==
    /\ Validated /\ NodeIdSet = {"C"}
    /\ path = <<Chain(<<"A", "B">>, <<>>)>>
    /\ result = Failure("A", "B", "A", "")

\* C10: the result describes the first failing pair in examination order (it
\* is valid when there is none); after the validation of a freshly converted graph no
\* flag stems from a pair after the first failing pair, and the nodes of the
\* pairs before it are on-path.
C10_ShortCircuit ==
    Validated =>
        /\ result.Valid <=> FirstFail = 0
        /\ FirstFail # 0 =>
              /\ result.InvalidEdge.Source = PathPairs(path, 1)[FirstFail][1]
              /\ result.InvalidEdge.Target = PathPairs(path, 1)[FirstFail][2]
        /\ \A pr \in Reached : NodeOf(pr[1]).OnPath /\ NodeOf(pr[2]).OnPath
        /\ \A i \in 1..Len(Nodes) :
              /\ Nodes[i].OnPath => \E pr \in Reached : Nodes[i].ID \in {pr[1], pr[2]}
              /\ Nodes[i].PathInvalid =>
                    /\ FirstFail # 0
                    /\ Nodes[i].ID \in {PathPairs(path, 1)[FirstFail][1],
                                        PathPairs(path, 1)[FirstFail][2]}
        /\ \A i \in 1..Len(links) :
              links[i].OnPath => \E pr \in Reached : Joins(links[i], pr)

\* graph `digraph { A -> B; B -> A }`, path `digraph { A -> B; C -> A; B -> A }`:
\* A -> B is marked, C -> A fails on C, and B -> A is never looked at
C10_Witness ==
    /\ Validated /\ directed
    /\ path = <<Chain(<<"A", "B">>, <<>>), Chain(<<"C", "A">>, <<>>),
                Chain(<<"B", "A">>, <<>>)>>
    /\ Pairs(links) = <<(<<"A", "B">>), (<<"B", "A">>)>>
    /\ result = Failure("C", "A", "C", "A")
    /\ NodeOf("A").OnPath /\ NodeOf("B").OnPath /\ NodeOf("A").PathInvalid
    /\ links[1].OnPath /\ ~links[2].OnPath

\* ------------------------------------------------------- graph model claims
IdsOf(ns) == [i \in 1..Len(ns) |-> ns[i].ID]

\* The node ids that a list of statements and endpoints mentions, in source
\* order
RECURSIVE RefIdsOf(_)
RefIdsOf(items) ==
    IF items = <<>> THEN <<>>
    ELSE LET h == Head(items)
             t == Tail(items)
         IN  CASE h.kind \in {"NodeID", "NodeStmt"} -> <<h.id>> \o RefIdsOf(t)
               [] h.kind = "NodeGroup" -> h.nodes \o RefIdsOf(t)
               [] h.kind = "EdgeStmt" -> RefIdsOf(endpointsOf(h) \o t)
               [] h.kind = "Subgraph" -> RefIdsOf(h.stmts \o t)
               [] OTHER -> RefIdsOf(t)

\* s without the repeated occurrences of its elements
RECURSIVE DedupFrom(_, _, _)
DedupFrom(s, i, acc) ==
    IF i > Len(s) THEN acc
    ELSE DedupFrom(s, i + 1,
            IF \E j \in 1..Len(acc) : acc[j] = s[i] THEN acc ELSE Append(acc, s[i]))

Dedup(s) == DedupFrom(s, 1, <<>>)

\* C11: node ids are unique: the Converter keeps one node per id under that
\* id, and no two entries of the returned Nodes have the same ID, however
\* often and in however many subgraphs the id is mentioned.
C11_NodeIdsUnique ==
    /\ \A id \in DOMAIN nodes : nodes[id].ID = id
    /\ pc = "returned" =>
          \A i, j \in 1..Len(Nodes) : Nodes[i].ID = Nodes[j].ID => i = j

\* A is mentioned in the subgraphs s1 and s2 and the graph has three nodes
C11_Witness ==
    /\ pc = "returned" /\ Len(Nodes) = 3
    /\ \E i, j \in 1..Len(subgraphs) :
          /\ subgraphs[i].ID = "s1" /\ subgraphs[j].ID = "s2"
          /\ \E k \in 1..Len(subgraphs[i].Nodes) : subgraphs[i].Nodes[k] = "A"
          /\ \E k \in 1..Len(subgraphs[j].Nodes) : subgraphs[j].Nodes[k] = "A"

\* C12 (as claimed): once a node has a non-empty Group, no later statement
\* changes it.
C12_FirstGroupKept ==
    [][StmtStep =>
          \A id \in DOMAIN nodes :
             nodes[id].Group # "" => nodes'[id].Group = nodes[id].Group]_vars

\* C13 (as claimed, for an AST of one statement): Convert returns Nodes in the
\* order in which the statement first references the ids, and Links as
\* created.
C13_NodesInFirstReferenceOrder ==
    [][(pc = "converting" /\ pc' = "returned" /\ nstmts = 1) =>
          /\ IdsOf(Nodes') = Dedup(RefIdsOf(<<last>>))
          /\ links' = links]_vars

\* C14 (as claimed, for a subgraph statement at the top level): the record
\* registered for a subgraph statement with an identifier lists each node id
\* touched inside the body, nested subgraphs included, once, in first-seen
\* order.
C14_SubgraphNodesOnce ==
    [][(StmtStep /\ last'.kind = "Subgraph" /\ last'.id # "") =>
          /\ Len(subgraphs') > Len(subgraphs)
          /\ subgraphs'[Len(subgraphs')].ID = last'.id
          /\ subgraphs'[Len(subgraphs')].Nodes = Dedup(RefIdsOf(last'.stmts))]_vars

\* C18: repeated Scan calls reach EOF after finitely many calls: the offset
\* never passes the length of the input, and a Scan call that does not return
\* EOF leaves the offset at least one byte further, whatever error it
\* recorded, so that at most Len(src) calls return something else than EOF;
\* after EOF was returned, another call returns EOF and records no error.
C18_ScanReachesEOF ==
    /\ [](pc = "scanning" => lexer.offset <= Len(lexer.src))
    /\ [](scan.tok = "EOF" =>
            LET r == Scan(lexer) IN r.tok = "EOF" /\ r.l.Errors = lexer.Errors)
    /\ [][pc = "scanning" =>
            /\ scan'.tok # "EOF" => lexer'.offset >= lexer.offset + 1
            /\ scan.tok = "EOF" => scan'.tok = "EOF" /\ lexer'.Errors = lexer.Errors]_vars

\* EOF returned after a text in which an error was recorded
C18_Witness ==
    /\ pc = "scanning"
    /\ scan.tok = "EOF"
    /\ Len(input) >= 2
    /\ lexer.offset = Len(lexer.src)
    /\ Len(lexer.Errors) >= 1

\* The index in src of the character ending the string whose text begins at i:
\* the first quote or newline not behind a backslash, Len(src) + 1 if none
RECURSIVE StringStop(_, _)
StringStop(src, i) ==
    IF i > Len(src) THEN Len(src) + 1
    ELSE IF src[i] = "\"" \/ src[i] = "\n" THEN i
    ELSE IF src[i] = "\\" THEN StringStop(src, i + 2)
    ELSE StringStop(src, i + 1)

\* The text of src[i..stop-1] with its escapes replaced; a backslash that is
\* the last character of the input stands for the replacement character
RECURSIVE StringText(_, _, _)
StringText(src, i, stop) ==
    IF i >= stop THEN <<>>
    ELSE IF src[i] = "\\"
         THEN <<(IF i + 1 > Len(src) THEN RuneError
                 ELSE CASE src[i + 1] = "n" -> "\n"
                        [] src[i + 1] = "t" -> "\t"
                        [] src[i + 1] = "r" -> "\r"
                        [] OTHER -> src[i + 1])>> \o StringText(src, i + 2, stop)
         ELSE <<src[i]>> \o StringText(src, i + 1, stop)

\* The errors recorded at position at
ErrorsAt(at) == {i \in 1..Len(lexer.Errors) : lexer.Errors[i].Pos = at}

\* C20: a string opened by a quote that meets the end of input or a bare
\* newline before its closing quote records exactly one error, for that
\* string, and Scan returns STRING with the text read up to there; for "abc
\* the calls return STRING abc, then EOF, with one error in total.
C20_UnterminatedString ==
    /\ (pc = "scanning" /\ scan.tok = "STRING") =>
          LET src  == lexer.src
              open == scan.pos.Offset + 1
              stop == StringStop(src, open + 1)
          IN  (stop > Len(src) \/ src[stop] = "\n") =>
                 /\ Cardinality(ErrorsAt(scan.pos)) = 1
                 /\ \A i \in ErrorsAt(scan.pos) :
                       lexer.Errors[i].Msg = <<"unterminated string">>
                 /\ scan.lit = StringText(src, open + 1, stop)
                 /\ lexer.offset = stop - 1
    /\ (pc = "scanning" /\ input = AbcOpen) =>
          \/ scan = NoScan /\ lexer.Errors = <<>>
          \/ /\ scan.tok = "STRING"
             /\ scan.lit = <<"a", "b", "c">>
             /\ scan.pos.Offset = 0
             /\ Len(lexer.Errors) = 1
          \/ /\ scan.tok = "EOF"
             /\ scan.pos.Offset = 4
             /\ Len(lexer.Errors) = 1

\* "abc scanned to its end
C20_Witness ==
    /\ pc = "scanning"
    /\ input = AbcOpen
    /\ scan.tok = "EOF"
    /\ Len(lexer.Errors) = 1

\* The tokens that the parser's methods pass to expect
Expected == {"LBRACE", "RBRACE", "RBRACKET", "COLON"}

RECURSIVE LinesFrom(_, _)
LinesFrom(text, cur) ==
    IF text = <<>> THEN <<cur>>
    ELSE IF Head(text) = "\n" THEN <<cur>> \o LinesFrom(Tail(text), <<>>)
    ELSE LinesFrom(Tail(text), Append(cur, Head(text)))

\* The line that reports error e
ErrorLine(e) == <<ToString(e.Pos), ": ">> \o e.Msg

\* C19: Parse returns an error exactly when the lexer or the parser recorded
\* an error while the input was parsed; the text of the error is a heading
\* followed by one line for each lexer error and then one line for each
\* parser error, in the order recorded; the graph returned is not nil, with
\* an error and without.
C19_ErrorIffRecorded ==
    pc = "parsed" =>
       LET lexErrs == parser.lexer.Errors
           parErrs == parser.Errors
       IN  /\ parsed.g.kind = "Graph"
           /\ (parsed.err # Nil) <=> (Len(lexErrs) + Len(parErrs) >= 1)
           /\ parsed.err # Nil =>
                 LET ls == LinesFrom(parsed.err.text, <<>>)
                 IN  /\ Len(ls) = 1 + Len(lexErrs) + Len(parErrs)
                     /\ ls[1] = <<"parse errors:">>
                     /\ \A i \in 1..Len(lexErrs) : ls[1 + i] = ErrorLine(lexErrs[i])
                     /\ \A i \in 1..Len(parErrs) :
                           ls[1 + Len(lexErrs) + i] = ErrorLine(parErrs[i])

\* A parse in which the lexer and the parser both recorded errors
C19_Witness ==
    /\ pc = "parsed"
    /\ Len(parser.lexer.Errors) >= 1
    /\ Len(parser.Errors) >= 1
    /\ parsed.err # Nil
    /\ parsed.g.kind = "Graph"

\* The brace block of an input of BraceInputs: where it stands, and its words
AsRightEndpoint == Len(input) >= 7 /\ input[3] = <<"A">>
AsLeftEndpoint == Len(input) >= 7 /\ input[3] = <<"{">> /\ input[Len(input)] # input[Len(input) - 1]
AsStatement == Len(input) >= 5 /\ input[3] = <<"{">> /\ ~AsLeftEndpoint

BraceBody ==
    CASE AsRightEndpoint -> SubSeq(input, 6, Len(input) - 2)
      [] AsLeftEndpoint -> SubSeq(input, 4, Len(input) - 4)
      [] AsStatement -> SubSeq(input, 4, Len(input) - 2)

IsIdWord(w) == w \in {<<"B">>, <<"C">>, <<"D">>, <<"C", ":", "p">>}
IsAttrWord(w) == w = <<"[", "x", "=", "y", "]">>
IsEdgeWord(w) == w = <<"-", ">", "D">>

\* stmt_list := { stmt [';'] } over the words of a brace block; st tells what
\* the words before position i make up: "start" nothing yet or a statement
\* closed by its semicolon, "id" a statement that is one node id, "edge" an
\* edge chain, "attrs" a statement ended by attribute lists or the word node
RECURSIVE IsStmtList(_, _, _)
IsStmtList(ws, i, st) ==
    IF i > Len(ws) THEN TRUE
    ELSE LET w == ws[i]
         IN  CASE IsIdWord(w) -> IsStmtList(ws, i + 1, "id")
               [] w = KwNode -> IsStmtList(ws, i + 1, "attrs")
               [] w = <<";">> -> st # "start" /\ IsStmtList(ws, i + 1, "start")
               [] IsAttrWord(w) -> st # "start" /\ IsStmtList(ws, i + 1, "attrs")
               [] IsEdgeWord(w) -> st \in {"id", "edge"} /\ IsStmtList(ws, i + 1, "edge")
               [] OTHER -> FALSE

\* C15: an input that matches the grammar is parsed without error, whatever
\* statement list its brace block holds, as a statement or as the right
\* endpoint of an edge.
C15_GrammarValidParses ==
    (pc = "parsed" /\ (AsRightEndpoint \/ AsStatement) /\ IsStmtList(BraceBody, 1, "start"))
        => parsed.err = Nil

\* The leading node ids of the words ws, from position i on
RECURSIVE IdPrefixLen(_, _)
IdPrefixLen(ws, i) ==
    IF i <= Len(ws) /\ IsIdWord(ws[i]) THEN 1 + IdPrefixLen(ws, i + 1) ELSE 0

\* The node id that an id word denotes
WordNodeID(w) ==
    [kind |-> "NodeID", ID |-> Ident(<<w[1]>>, FALSE, FALSE),
     Port |-> IF Len(w) = 1 THEN Nil
              ELSE [kind |-> "Port", ID |-> Ident(<<w[3]>>, FALSE, FALSE), Compass |-> Nil]]

\* The statements of digraph { ws }
StatementsOf(ws) ==
    dot_Parse("test", Words(<<KwDigraph, <<"{">> >> \o ws \o << <<"}">> >>)).g.Statements

\* What a brace block with the words ws is when the parser tries a node group
\* first: a NodeGroup if ws is one or more node ids and nothing else, and else
\* the Subgraph of the ids as node statements, then the statements of the rest
GroupOrSubgraph(ws) ==
    LET n == IdPrefixLen(ws, 1)
    IN  IF n = Len(ws) /\ n > 0
        THEN [kind |-> "NodeGroup", Nodes |-> [i \in 1..n |-> WordNodeID(ws[i])]]
        ELSE [kind |-> "Subgraph", ID |-> Nil,
              Statements |->
                  [i \in 1..n |-> [kind |-> "NodeStmt", NodeID |-> WordNodeID(ws[i]),
                                   Attrs |-> Nil]]
                  \o StatementsOf(SubSeq(ws, n + 1, Len(ws)))]

\* The parsed brace block of an input of BraceInputs
BraceNode ==
    CASE AsRightEndpoint -> parsed.g.Statements[1].Rights[1].Endpoint
      [] AsLeftEndpoint -> parsed.g.Statements[1].Left
      [] AsStatement -> parsed.g.Statements[1]

\* C16 as stated: wherever a brace block without the subgraph keyword stands,
\* it is parsed as a NodeGroup exactly when it holds one or more node ids and
\* nothing else, and else as the Subgraph of the consumed ids as node
\* statements followed by the remaining statements.
C16_EveryBraceTriesGroup ==
    (pc = "parsed" /\ (AsRightEndpoint \/ AsLeftEndpoint \/ AsStatement))
        => BraceNode = GroupOrSubgraph(BraceBody)

\* C16: a brace block without the subgraph keyword that is the right endpoint
\* of an edge is parsed as a NodeGroup exactly when it holds one or more node
\* ids (with optional ports) and nothing else, and else as the Subgraph of the
\* consumed ids as node statements, in order, followed by the remaining
\* statements; A -> {B C D} is one EdgeStmt with one right endpoint, a
\* NodeGroup of 3 nodes. A brace block that begins a statement is a Subgraph.
C16_RightEndpointTriesGroup ==
    /\ (pc = "parsed" /\ AsRightEndpoint) =>
          /\ Len(parsed.g.Statements) = 1
          /\ parsed.g.Statements[1].kind = "EdgeStmt"
          /\ Len(parsed.g.Statements[1].Rights) = 1
          /\ BraceNode = GroupOrSubgraph(BraceBody)
    /\ (pc = "parsed" /\ (AsLeftEndpoint \/ AsStatement)) =>
          /\ BraceNode.kind = "Subgraph"
          /\ BraceNode.Statements = StatementsOf(BraceBody)
    /\ (pc = "parsed" /\ input = EdgeShorthand) =>
          /\ BraceNode.kind = "NodeGroup"
          /\ Len(BraceNode.Nodes) = 3

\* A right endpoint { B ; C:p }: a Subgraph of B and then the rest
C16_Witness ==
    /\ pc = "parsed"
    /\ AsRightEndpoint
    /\ BraceBody = <<(<<"B">>), (<<";">>), (<<"C", ":", "p">>)>>
    /\ BraceNode.kind = "Subgraph"
    /\ Len(BraceNode.Statements) = 2

\* The tokens that repeated calls of Scan return before EOF, as [tok, lit]
RECURSIVE ScanAll(_)
ScanAll(l) ==
    LET r == Scan(l)
    IN  IF r.tok = "EOF" THEN <<>> ELSE <<[tok |-> r.tok, lit |-> r.lit]>> \o ScanAll(r.l)

TokensOf(ws) == ScanAll(Lexer_New("test", Words(ws)))

\* ws with every keyword, in whatever case, written in lower case, and every
\* other word as it is
LowerKeywords(ws) ==
    [i \in 1..Len(ws) |-> IF Lookup(ToLower(ws[i])) # "IDENT" THEN ToLower(ws[i]) ELSE ws[i]]

\* C21: an input and the same input with its keywords in lower case give the
\* same token kinds and the same AST and error outcome, so all spellings of
\* the keywords parse identically; every keyword in any spelling is its
\* keyword token; an identifier token has the word as written as literal.
C21_KeywordCaseInsensitive ==
    pc = "parsed" =>
        LET low  == LowerKeywords(input)
            toks == TokensOf(input)
            lows == TokensOf(low)
            ref  == dot_Parse("test", Words(low))
        IN  /\ Len(toks) = Len(input) /\ Len(lows) = Len(input)
            /\ \A i \in 1..Len(input) :
                  /\ toks[i].tok = lows[i].tok
                  /\ low[i] # input[i] => toks[i].tok = Lookup(low[i]) /\ toks[i].tok # "IDENT"
                  /\ toks[i].tok = "IDENT" => toks[i].lit = input[i]
            /\ parsed.g = ref.g
            /\ parsed.err = ref.err

\* `DiGraph { NODE [ x = Y ] Ab -> Node1 }`: a directed graph of an attribute
\* statement and an edge from Ab to Node1, without error
C21_Witness ==
    /\ pc = "parsed"
    /\ input = <<WithUpper(KwDigraph, {1, 3}), <<"{">>, WithUpper(KwNode, 1..4), <<"[">>,
                 <<"x">>, <<"=">>, <<"Y">>, <<"]">>, <<"A", "b">>, Arrow,
                 <<"N", "o", "d", "e", "1">>, <<"}">> >>
    /\ parsed.err = Nil
    /\ parsed.g.Directed /\ ~parsed.g.Strict
    /\ Len(parsed.g.Statements) = 2
    /\ parsed.g.Statements[1].kind = "AttrStmt"
    /\ parsed.g.Statements[2].kind = "EdgeStmt"
    /\ parsed.g.Statements[2].Left.ID.Name = <<"A", "b">>
    /\ parsed.g.Statements[2].Rights[1].Endpoint.ID.Name = <<"N", "o", "d", "e", "1">>
\* g with every OnPath and PathInvalid flag cleared
ClearFlags(g) ==
    [g EXCEPT !.Nodes = [i \in 1..Len(g.Nodes) |->
                            [g.Nodes[i] EXCEPT !.OnPath = FALSE, !.PathInvalid = FALSE]],
              !.Links = [i \in 1..Len(g.Links) |-> [g.Links[i] EXCEPT !.OnPath = FALSE]]]

\* C22: a call of ApplyPathHighlighting leaves the Graph as it was but for the
\* OnPath and PathInvalid flags of its nodes and the OnPath flag of its links:
\* the same nodes and links in the same order with the same fields, the same
\* Directed, Strict, GraphID and Subgraphs, for a valid and for an invalid result, and
\* no node or link for an id that only the path mentions.
C22_OnlyFlagsChange ==
    [][(pc = "returned" /\ ncalls' = ncalls + 1) =>
          LET r == ApplyPathHighlighting(Graph, path')
          IN  /\ ClearFlags(r.g) = ClearFlags(Graph)
              /\ Graph' = r.g
              /\ Len(Nodes') = Len(Nodes) /\ Len(links') = Len(links)
              /\ \A i \in 1..Len(Nodes) :
                    [Nodes'[i] EXCEPT !.OnPath = FALSE, !.PathInvalid = FALSE]
                       = [Nodes[i] EXCEPT !.OnPath = FALSE, !.PathInvalid = FALSE]
              /\ \A i \in 1..Len(links) :
                    [links'[i] EXCEPT !.OnPath = FALSE] = [links[i] EXCEPT !.OnPath = FALSE]]_vars

\* graph `digraph { A -> B }`, path `digraph { A -> B -> C }`: the result is
\* invalid for (B, C), and the graph still has the nodes A and B and one link
C22_Witness ==
    /\ Validated /\ directed
    /\ path = <<Chain(<<"A", "B", "C">>, <<>>)>>
    /\ result = Failure("B", "C", "C", "B")
    /\ NodeIdSet = {"A", "B"} /\ Len(Nodes) = 2
    /\ Pairs(links) = <<(<<"A", "B">>)>>
    /\ links[1].OnPath /\ NodeOf("B").PathInvalid
\* The pairs of the hops of an edge statement, the id list of an endpoint
\* being the ids it mentions in source order
RECURSIVE RefHopPairs(_, _)
RefHopPairs(eps, k) ==
    IF k >= Len(eps) THEN <<>>
    ELSE Cross(RefIdsOf(<<eps[k]>>), RefIdsOf(<<eps[k + 1]>>)) \o RefHopPairs(eps, k + 1)

\* The (hop, leftId, rightId) occurrences of a list of statements and
\* endpoints: those of each edge statement, at the top, inside subgraph
\* statements and inside subgraphs used as endpoints
RECURSIVE SourcePairs(_)
SourcePairs(items) ==
    IF items = <<>> THEN <<>>
    ELSE LET h == Head(items)
             t == Tail(items)
         IN  CASE h.kind = "EdgeStmt" ->
                    RefHopPairs(endpointsOf(h), 1) \o SourcePairs(endpointsOf(h) \o t)
               [] h.kind = "Subgraph" -> SourcePairs(h.stmts \o t)
               [] OTHER -> SourcePairs(t)

Count(s, x) == Cardinality({i \in 1..Len(s) : s[i] = x})

\* C23 (as claimed): in a non-strict graph a statement adds, for every pair
\* (s, t), as many links as the statement has (hop, leftId, rightId)
\* occurrences producing (s, t), its edge statements inside subgraph
\* statements and inside subgraphs used as endpoints included.
C23_EdgeStatementsOnce ==
    [][(StmtStep /\ ~strict) =>
          \A a, b \in Ids :
             Count(Pairs(links'), <<a, b>>)
                = Count(Pairs(links), <<a, b>>) + Count(SourcePairs(<<last'>>), <<a, b>>)]_vars
\* C24 (as claimed): for every endpoint of an edge statement, node id, node
\* group or subgraph (with node statements, edge statements and nested
\* subgraph statements in its body), collectPathEndpoints gives the id list
\* that collectEndpoints gives.
C24_PathEndpointsAsBuilder ==
    (pc = "converting" /\ last.kind = "EdgeStmt") =>
        \A i \in 1..Len(endpointsOf(last)) :
           collectPathEndpoints(endpointsOf(last)[i])
              = collectEndpoints(Conv([id \in Ids |-> TRUE]), endpointsOf(last)[i], "").ids
\* The attribute statements of the given kind in a list of statements and
\* endpoints, in document order, whatever the nesting
RECURSIVE AttrStmtsOf(_, _)
AttrStmtsOf(items, akind) ==
    IF items = <<>> THEN <<>>
    ELSE LET h == Head(items)
             t == Tail(items)
         IN  CASE h.kind = "AttrStmt" ->
                    (IF h.akind = akind THEN <<h>> ELSE <<>>) \o AttrStmtsOf(t, akind)
               [] h.kind = "EdgeStmt" -> AttrStmtsOf(endpointsOf(h) \o t, akind)
               [] h.kind = "Subgraph" -> AttrStmtsOf(h.stmts \o t, akind)
               [] OTHER -> AttrStmtsOf(t, akind)

\* defaults with the attributes of the statements as added, a later key
\* over an earlier one
RECURSIVE Accumulate(_, _)
Accumulate(defaults, as) ==
    IF as = <<>> THEN defaults
    ELSE Accumulate(putAttrs(defaults, Head(as).attrs, 1), Tail(as))

\* C25 (as claimed): the defaults in effect after a statement are those before
\* it with all the `node [...]` / `edge [...]` statements of the statement
\* accumulated in document order, whatever their subgraph nesting: a default
\* set inside a subgraph body holds after its closing brace.
C25_DefaultsFlat ==
    [][StmtStep =>
          /\ nodeDefaults' = Accumulate(nodeDefaults, AttrStmtsOf(<<last'>>, "node"))
          /\ edgeDefaults' = Accumulate(edgeDefaults, AttrStmtsOf(<<last'>>, "edge"))]_vars
\* The value a link holds for an attribute key
LinkFieldOf(link, k) ==
    CASE k = "label" -> link.Label
      [] k = "color" -> link.Color
      [] k = "style" -> link.Style
      [] OTHER -> Get(link.Attributes, k)

\* C26: every link that an edge statement with flat endpoints creates, at any
\* hop of its chain, holds the attributes of the trailing attribute list, and
\* for the keys the list does not name, the edge defaults in effect; in a
\* graph that is not strict every hop creates its links.
C26_EdgeAttributesEveryHop ==
    [][(StmtStep /\ FlatEndpoints(last')) =>
          LET explicit == putAttrs(<<>>, last'.attrs, 1)
          IN  /\ Len(links') >= Len(links)
              /\ SubSeq(links', 1, Len(links)) = links
              /\ ~strict => Pairs(links') = Pairs(links) \o HopPairs(endpointsOf(last'), 1)
              /\ \A i \in (Len(links) + 1)..Len(links') :
                    /\ \A k \in DOMAIN explicit :
                          LinkFieldOf(links'[i], k) = explicit[k]
                    /\ \A k \in DOMAIN edgeDefaults \ DOMAIN explicit :
                          LinkFieldOf(links'[i], k) = edgeDefaults[k]]_vars

\* `edge [color=blue]  A -> B -> C [label=e, color=red]`: both hops have made
\* a link with label e and the explicit color red
C26_Witness ==
    /\ pc = "converting"
    /\ edgeDefaults = Put(<<>>, "color", "blue")
    /\ last = Chain(<<"A", "B", "C">>, Attr("label", "e") \o Attr("color", "red"))
    /\ Len(links) = 2
    /\ \A i \in 1..2 : links[i].Label = "e" /\ links[i].Color = "red"
    /\ Pairs(links) = <<<<"A", "B">>, <<"B", "C">>>>
\* C27: in the Graph that Convert returns, the Source and the Target of every
\* link and every id in the Nodes list of every Subgraph record is the ID of
\* a node in Nodes.
C27_ReferentialIntegrity ==
    pc = "returned" =>
        /\ \A i \in 1..Len(links) :
              links[i].Source \in NodeIdSet /\ links[i].Target \in NodeIdSet
        /\ \A i \in 1..Len(subgraphs) :
              \A j \in 1..Len(subgraphs[i].Nodes) : subgraphs[i].Nodes[j] \in NodeIdSet

\* `subgraph s2 { A -> B  A -> C }` has been converted: links and a Subgraph
\* record whose Nodes list names A, B, A, C
C27_Witness ==
    /\ pc = "returned"
    /\ Len(links) >= 2
    /\ \E i \in 1..Len(subgraphs) :
          subgraphs[i].ID = "s2" /\ subgraphs[i].Nodes = <<"A", "B", "A", "C">>
    /\ NodeIdSet = {"A", "B", "C"}
\* The link l joins a and b: as a -> b, or in an undirected graph as b -> a
Repeats(l, a, b) == SamePair(l, a, b) \/ (~directed /\ SamePair(l, b, a))

\* C28: in a strict graph an edge statement leaves every link that exists as
\* it is (orientation, label, color, style and attributes: nothing of a
\* dropped duplicate is merged into it), adds no link for a pair that has
\* one, in either orientation if the graph is undirected, and still
\* materializes the nodes of all its endpoints.
C28_StrictKeepsFirst ==
    [][(StmtStep /\ strict /\ FlatEndpoints(last')) =>
          /\ Len(links') >= Len(links)
          /\ SubSeq(links', 1, Len(links)) = links
          /\ \A i \in 1..Len(links') : \A j \in 1..Len(links') :
                Repeats(links'[i], links'[j].Source, links'[j].Target) => i = j
          /\ StmtIds(last') \subseteq DOMAIN nodes']_vars

\* `strict graph G { B -- A   A -- B -- C [label=e, color=red] }`: the hop
\* A -- B is dropped and the link B -- A keeps its orientation and its empty
\* label and color, the hop B -- C makes a link, and C is a node
C28_Witness ==
    /\ pc = "converting"
    /\ strict /\ ~directed
    /\ last = Chain(<<"A", "B", "C">>, Attr("label", "e") \o Attr("color", "red"))
    /\ Len(links) = 2
    /\ SamePair(links[1], "B", "A") /\ links[1].Color = "" /\ links[1].Label = ""
    /\ SamePair(links[2], "B", "C") /\ links[2].Color = "red"
    /\ DOMAIN nodes = {"A", "B", "C"}
\* C29: a call of ApplyPathHighlighting, the first or a later one on the same
\* Graph, turns no flag off: a node or link that has OnPath, and a node that
\* has PathInvalid, has it after the call, whatever the path and the result.
C29_FlagsOnlyTurnOn ==
    [][(pc = "returned" /\ ncalls' = ncalls + 1) =>
          /\ Len(Nodes') = Len(Nodes) /\ Len(links') = Len(links)
          /\ \A i \in 1..Len(Nodes) :
                /\ Nodes'[i].ID = Nodes[i].ID
                /\ Nodes[i].OnPath => Nodes'[i].OnPath
                /\ Nodes[i].PathInvalid => Nodes'[i].PathInvalid
          /\ \A i \in 1..Len(links) : links[i].OnPath => links'[i].OnPath]_vars

\* graph `digraph { A -> B }`, first path `B -> C` (invalid: B is marked
\* PathInvalid), second path `A -> B` (valid): B has both flags
C29_Witness ==
    /\ pc = "returned" /\ ncalls = 2
    /\ NodeIdSet = {"A", "B"}
    /\ path = <<Chain(<<"A", "B">>, <<>>)>>
    /\ result = ValidResult
    /\ NodeOf("B").OnPath /\ NodeOf("B").PathInvalid
    /\ NodeOf("A").OnPath /\ ~NodeOf("A").PathInvalid
\* C30 (as claimed): the field values that a statement gives the nodes do not
\* depend on the order in which the default-attribute map is iterated: every
\* iteration order gives the nodes that this run has produced, also when the
\* node defaults hold both `color` and `fillcolor`.
C30_NodeFieldsDeterministic ==
    [][StmtStep =>
          \A ord \in [Ids -> BOOLEAN] :
             call([fn |-> "processStatement", c |-> Conv(ord), x |-> last', sg |-> ""]).nodes
                = nodes']_vars
====
